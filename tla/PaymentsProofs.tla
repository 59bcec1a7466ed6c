--------------------------- MODULE PaymentsProofs ---------------------------
(***************************************************************************)
(* Proofs about Payments, for any amount, number of attempts, faults and   *)
(* events in flight.                                                       *)
(***************************************************************************)
EXTENDS Payments, TotalsTheorems

OpStates == {"NONE", "SUCCEEDED", "FAILED", "PENDING", "UNKNOWN"}
FundFacts == {"NONE", "PROCESSING", "SUCCEEDED", "FAILED", "CANCELED", "RETURNED"}
FundRows == [op : OpStates, fact : FundFacts, method : Methods]
Reasons == {"NONE", "BUYER_CANCELED_BEFORE_WORK", "MUTUAL_CANCELLATION", "OPERATOR_RESOLUTION"}
Reqs == [fund : 0..MaxAttempts, amount : 0..Amount, reason : Reasons]
TransferFacts == {"NONE", "PENDING", "SUCCEEDED", "FAILED"}
OpRows == [op : OpStates, fact : TransferFacts, req : Reqs]
TransferRows == [applied : BOOLEAN, req : Reqs, status : TransferFacts]
FundStates == {"NONE", "REQUIRES_ACTION", "PROCESSING", "SUCCEEDED", "FAILED", "CANCELED", "RETURNED"}
BookKinds == {"funding", "refund", "release", "bank-return", "bank-loss"}
BookRows == [kind : BookKinds, id : Nat, amount : 0..Amount]

-----------------------------------------------------------------------------
(* The inductive invariant *)

RowTypes ==
    /\ status \in {"AWAITING_PAYMENT", "FUNDED", "WORKING", "APPROVED", "COMPLETED", "CANCELLED", "REFUNDED"}
    /\ payment \in Unpaid \cup {"SUCCEEDED", "REFUND_PENDING", "PARTIALLY_REFUNDED", "REFUNDED", "RETURNED"}
    /\ settlement \in {"NOT_READY", "READY", "PENDING", "RELEASED", "FAILED"}
    /\ refundDue \in {NoAmount} \cup 0..Amount

JournalTypes ==
    /\ attempts \in 0..MaxAttempts /\ fund \in [Attempts -> FundRows] /\ ops \in [Transfers -> OpRows]
    /\ lookup \in [fund : 0..MaxAttempts, applied : BOOLEAN] /\ (lookup # NoLookup => lookup.fund \in Attempts)
    /\ pfund \in [Attempts -> FundStates] /\ pcancel \in [Attempts -> BOOLEAN] /\ ptr \in [Transfers -> TransferRows]
    /\ books \in SUBSET BookRows /\ IsFiniteSet(books)

\* What the columns of the row say together.
RowInv ==
    /\ RowTypes
    /\ status = "AWAITING_PAYMENT" => payment \in Unpaid
    /\ status = "FUNDED" => payment = "SUCCEEDED"
    /\ status \in {"WORKING", "APPROVED", "COMPLETED"} => payment \in {"SUCCEEDED", "RETURNED"}
    /\ status # "CANCELLED" => refundDue = NoAmount \/ status = "REFUNDED"
    /\ status = "CANCELLED" => /\ payment # "REFUNDED"
                               /\ payment = "SUCCEEDED" => refundDue = 0
                               /\ payment = "PARTIALLY_REFUNDED" => refundDue # NoAmount /\ refundDue < Amount
                               /\ payment \in Unpaid => refundDue = NoAmount
    /\ status = "REFUNDED" => payment = "REFUNDED" /\ refundDue \in {NoAmount, Amount}
    /\ settlement = "NOT_READY" <=> \/ status \in {"AWAITING_PAYMENT", "FUNDED", "WORKING", "REFUNDED"}
                                    \/ status = "CANCELLED" /\ refundDue \in {NoAmount, Amount}
    /\ status = "COMPLETED" => settlement = "RELEASED"
    /\ settlement = "RELEASED" => status # "APPROVED"

\* What a fact about funding i, in an event or in the journal, says of the provider's object.
FundingFact(i, fact) ==
    /\ fact = "SUCCEEDED" => pfund[i] \in {"SUCCEEDED", "RETURNED"}
    /\ fact = "RETURNED" => pfund[i] = "RETURNED"
    /\ fact = "FAILED" => pfund[i] = "FAILED"
    /\ fact = "CANCELED" => pfund[i] \in {"CANCELED", "SUCCEEDED", "RETURNED"}

EventOK(e) ==
    /\ e.kind \in {"funding", "refund", "release", "dispute"}
    /\ e.kind = "funding" => /\ e.id \in Attempts /\ e.status \in FundFacts
                             /\ pfund[e.id] # "NONE" /\ FundingFact(e.id, e.status)
    /\ e.kind \in Transfers => e.status \in TransferFacts /\ (e.status = "SUCCEEDED" => ptr[e.kind].status = "SUCCEEDED")

EventsInv == \A e \in sent : EventOK(e)

\* Attempts begin one after the other, and an attempt that is over was closed at the provider or given up as failed.
AttemptInv(i) ==
    /\ FundingFact(i, fund[i].fact)
    /\ i > attempts => pfund[i] = "NONE" /\ fund[i] = NoFund
    /\ i <= attempts => fund[i].op # "NONE"
    /\ i < attempts /\ Open(i) => fund[i].op = "FAILED"
    /\ pcancel[i] => pfund[i] \in {"CANCELED", "SUCCEEDED", "RETURNED"}
    /\ status = "CANCELLED" /\ payment \in Unpaid /\ Open(i) => fund[i].op = "FAILED"

AttemptsInv == \A i \in Attempts : AttemptInv(i)

\* Principal of funding i that transfer t draws on.
Drawn(t, i) == IF ptr[t].req.fund = i /\ ptr[t].status \in {"PENDING", "SUCCEEDED"} THEN ptr[t].req.amount ELSE 0

TransferInv(t) ==
    /\ ~ptr[t].applied => ptr[t].status = "NONE"
    /\ ptr[t].applied => ptr[t].req.fund \in Attempts /\ fund[ptr[t].req.fund].fact = "SUCCEEDED"

\* A release is asked for once the settlement is ready, for what the refund leaves.
ReleaseAsked(req) == req = NoReq \/ (settlement # "NOT_READY" /\ req.amount = RemainderOf(refundDue))

TransfersInv ==
    /\ \A t \in Transfers : TransferInv(t)
    /\ \A i \in Attempts : Drawn("refund", i) + Drawn("release", i) <= Amount
    /\ ReleaseAsked(ptr["release"].req) /\ ReleaseAsked(ops["release"].req)

FundingBook(i) == [kind |-> "funding", id |-> i, amount |-> Amount]
RefundBook == [kind |-> "refund", id |-> 0, amount |-> RefundAmount(refundDue)]
ReleaseBook == [kind |-> "release", id |-> 0, amount |-> RemainderOf(refundDue)]

BooksInv ==
    /\ Booked({"funding"}) = {FundingBook(i) : i \in {j \in Attempts : fund[j].fact = "SUCCEEDED"}}
    /\ Booked({"refund"}) = IF payment \in {"REFUNDED", "PARTIALLY_REFUNDED"} THEN {RefundBook} ELSE {}
    /\ Booked({"release"}) = IF settlement = "RELEASED" THEN {ReleaseBook} ELSE {}
    /\ payment = "RETURNED" => Booked({"bank-return", "bank-loss"}) # {}

PaymentsInv ==
    /\ JournalTypes /\ RowInv /\ EventsInv /\ AttemptsInv /\ TransfersInv /\ BooksInv /\ OutcomeIsProviderFact

-----------------------------------------------------------------------------
(* Operators *)

LEMMA FundedByConfirmed ==
    ASSUME JournalTypes, FundedBy # 0
    PROVE  FundedBy \in Attempts /\ fund[FundedBy].fact = "SUCCEEDED"
<1> DEFINE confirmed == {i \in Attempts : fund[i].fact = "SUCCEEDED"}
<1>1. confirmed # {} /\ confirmed \in SUBSET (1..MaxAttempts) /\ MaxAttempts \in Nat
    BY PaymentsAssumption DEF FundedBy, Attempts
<1>2. FundedBy = CHOOSE i \in confirmed : \A j \in confirmed : j <= i
    BY <1>1 DEF FundedBy
<1>3. \E i \in confirmed : \A j \in confirmed : j <= i
  <2> HIDE DEF confirmed
  <2> QED
      BY <1>1, Greatest
<1>4. FundedBy \in confirmed
  <2> HIDE DEF confirmed
  <2> QED
      BY <1>2, <1>3
<1> QED
    BY <1>4

Closed == {"FAILED", "CANCELED", "SUCCEEDED", "RETURNED"}

LEMMA ToCancelOpen ==
    ASSUME JournalTypes
    PROVE  /\ ToCancel = 0 => \A i \in 1..attempts : fund[i].op = "SUCCEEDED" => fund[i].fact \in Closed
           /\ ToCancel # 0 => /\ ToCancel \in 1..attempts /\ ToCancel \in Attempts
                              /\ fund[ToCancel].op = "SUCCEEDED" /\ fund[ToCancel].fact \notin Closed
                              /\ \A i \in 1..attempts : fund[i].op = "SUCCEEDED" /\ i > ToCancel => fund[i].fact \in Closed
<1> DEFINE open == {i \in 1..attempts : fund[i].op = "SUCCEEDED" /\ fund[i].fact \notin Closed}
<1>1. open \in SUBSET (1..attempts) /\ attempts \in Nat /\ (1..attempts) \subseteq Attempts
    BY PaymentsAssumption DEF JournalTypes, Attempts
<1>2. ToCancel = IF open = {} THEN 0 ELSE CHOOSE i \in open : \A j \in open : j <= i
    BY DEF ToCancel, Closed
<1>3. CASE open = {}
    BY <1>2, <1>3
<1>4. CASE open # {}
  <2>1. \E i \in open : \A j \in open : j <= i
    <3> HIDE DEF open
    <3> QED
        BY <1>1, <1>4, Greatest
  <2>2. ToCancel \in open /\ \A j \in open : j <= ToCancel
    <3> HIDE DEF open
    <3> QED
        BY <1>2, <1>4, <2>1
  <2>3. ToCancel \in Int /\ ToCancel # 0
      BY <1>1, <2>2
  <2>4. \A i \in 1..attempts : i > ToCancel => i \notin open
      BY <1>1, <2>2, <2>3
  <2> QED
      BY <1>1, <2>2, <2>3, <2>4
<1> QED
    BY <1>3, <1>4

-----------------------------------------------------------------------------
(* Funding attempts *)

\* The provider's objects move on: a failure is final, a cancelled attempt may still be captured, a capture returned.
FundingsMoveOn ==
    \A i \in Attempts :
        \/ pfund'[i] = pfund[i]
        \/ pfund[i] \in {"NONE", "REQUIRES_ACTION", "PROCESSING"} /\ pfund'[i] # "NONE"
        \/ <<pfund[i], pfund'[i]>> \in {<<"CANCELED", "SUCCEEDED">>, <<"SUCCEEDED", "RETURNED">>}
FactsKept == \A i \in Attempts : fund'[i].fact = "SUCCEEDED" <=> fund[i].fact = "SUCCEEDED"

\* Events stay true of what the provider did.
LEMMA EventsKept ==
    ASSUME EventsInv, FundingsMoveOn, \A t \in Transfers : ptr[t].status = "SUCCEEDED" => ptr'[t].status = "SUCCEEDED",
           \A e \in sent' : e \in sent \/ EventOK(e)'
    PROVE  EventsInv'
<1> SUFFICES ASSUME NEW e \in sent'
             PROVE  EventOK(e)'
    BY DEF EventsInv
<1>1. CASE e \in sent
  <2>1. EventOK(e)
      BY <1>1 DEF EventsInv
  <2> QED
      BY <2>1 DEF EventOK, FundingFact, FundingsMoveOn
<1> QED
    BY <1>1

\* A checkout step leaves the transfers and the books alone: the order is unpaid before and after it.
LEMMA CheckoutKeeps ==
    ASSUME PaymentsInv, FundingsMoveOn, FactsKept, status = "AWAITING_PAYMENT",
           status' \in {"AWAITING_PAYMENT", "CANCELLED"}, payment' \in Unpaid,
           UNCHANGED <<settlement, refundDue, ops, ptr, books>>,
           \A e \in sent' : e \in sent \/ EventOK(e)'
    PROVE  RowInv' /\ EventsInv' /\ TransfersInv' /\ BooksInv' /\ OutcomeIsProviderFact'
<1>0. payment \in Unpaid /\ settlement = "NOT_READY" /\ refundDue = NoAmount
    BY DEF PaymentsInv, RowInv
<1>1. RowInv'
    BY <1>0 DEF PaymentsInv, RowInv, RowTypes, Unpaid
<1>2. EventsInv'
    BY EventsKept DEF PaymentsInv
<1>3. TransfersInv'
  <2>1. \A t \in Transfers : TransferInv(t)'
      BY DEF PaymentsInv, TransfersInv, TransferInv, FactsKept
  <2>2. \A i \in Attempts : (Drawn("refund", i) + Drawn("release", i) <= Amount)'
      BY DEF PaymentsInv, TransfersInv, Drawn
  <2>3. ReleaseAsked(ptr["release"].req)' /\ ReleaseAsked(ops["release"].req)'
      BY <1>0 DEF PaymentsInv, TransfersInv, ReleaseAsked
  <2> QED
      BY <2>1, <2>2, <2>3 DEF TransfersInv
<1>4. BooksInv'
    BY <1>0 DEF PaymentsInv, BooksInv, Booked, FactsKept, FundingBook, Unpaid
<1>5. OutcomeIsProviderFact'
    BY <1>0 DEF OutcomeIsProviderFact, Unpaid
<1> QED
    BY <1>1, <1>2, <1>3, <1>4, <1>5

\* createFundingIntent for an attempt that is, or becomes, the latest.
LEMMA CreateIntentKeeps ==
    ASSUME PaymentsInv, NEW i \in Attempts, NEW m \in Methods, NEW o \in Answers, CreateIntent(i, m, o),
           status' = status, status = "AWAITING_PAYMENT", UNCHANGED <<pcancel, lookup, ops, ptr, books>>,
           attempts' = i, i = attempts \/ (i = attempts + 1 /\ ~OpenAttempt)
    PROVE  JournalTypes' /\ AttemptsInv' /\ FundingsMoveOn /\ FactsKept
<1>0. /\ fund \in [Attempts -> FundRows] /\ pfund \in [Attempts -> FundStates] /\ attempts \in 0..MaxAttempts /\ MaxAttempts \in Nat
      /\ pcancel \in [Attempts -> BOOLEAN]
    BY PaymentsAssumption DEF PaymentsInv, JournalTypes
<1>1. \A j \in Attempts : AttemptInv(j)
    BY DEF PaymentsInv, AttemptsInv
<1> DEFINE op == IF pfund[i] # "NONE" THEN "SUCCEEDED" ELSE StatusOf(o)
<1>2. op \in {"SUCCEEDED", "PENDING", "UNKNOWN"}
    BY DEF StatusOf
<1>3. fund' = [fund EXCEPT ![i].op = op, ![i].method = m]
    BY DEF CreateIntent
<1> HIDE DEF op
<1>4. fund' \in [Attempts -> FundRows] /\ fund'[i].op = op /\ \A j \in Attempts : fund'[j].fact = fund[j].fact
      /\ (j # i => fund'[j] = fund[j])
    BY <1>0, <1>2, <1>3 DEF FundRows, OpStates
<1>5. \/ pfund' = pfund
      \/ pfund[i] = "NONE" /\ pfund' = [pfund EXCEPT ![i] = "REQUIRES_ACTION"]
    BY DEF CreateIntent
<1>6. pfund' \in [Attempts -> FundStates]
    BY <1>0, <1>5 DEF FundStates
<1>7. JournalTypes'
    BY <1>4, <1>6 DEF PaymentsInv, JournalTypes, Attempts
<1>8. FundingsMoveOn /\ FactsKept
    BY <1>0, <1>4, <1>5 DEF FundingsMoveOn, FactsKept
<1>9. ASSUME NEW j \in Attempts
      PROVE  AttemptInv(j)'
  <2>1. AttemptInv(j) /\ j \in Int
      BY <1>1 DEF Attempts
  <2>2. CASE j = i
    <3>1. fund'[j].op = op /\ fund'[j].fact = fund[j].fact
        BY <1>4, <2>2
    <3>2. pfund'[j] = pfund[j] \/ (pfund[j] = "NONE" /\ pfund'[j] = "REQUIRES_ACTION")
        BY <1>0, <1>5, <2>2
    <3>3. FundingFact(j, fund[j].fact)'
        BY <2>1, <3>1, <3>2 DEF AttemptInv, FundingFact
    <3>4. pcancel'[j] => pfund'[j] \in {"CANCELED", "SUCCEEDED", "RETURNED"}
        BY <2>1, <3>2 DEF AttemptInv
    <3> QED
        BY <1>2, <2>1, <2>2, <3>1, <3>3, <3>4 DEF AttemptInv
  <2>3. CASE j # i
    <3>1. fund'[j] = fund[j] /\ pfund'[j] = pfund[j] /\ pcancel'[j] = pcancel[j]
        BY <1>0, <1>4, <1>5, <2>3
    <3>2. j < attempts' => j <= attempts
        BY <1>0, <2>1
    <3>3. j < attempts' /\ Open(j) => fund[j].op = "FAILED"
      <4>1. CASE j < attempts
          BY <2>1, <4>1 DEF AttemptInv
      <4>2. CASE j = attempts
          BY <1>0, <2>1, <2>3, <4>2 DEF AttemptInv, OpenAttempt, FundingFact, Open, Attempts
      <4> QED
          BY <1>0, <2>1, <3>2, <4>1, <4>2
    <3>4. /\ j > attempts' => pfund[j] = "NONE" /\ fund[j] = NoFund
          /\ j <= attempts' => fund[j].op # "NONE"
        BY <1>0, <2>1, <2>3 DEF AttemptInv
    <3>5. FundingFact(j, fund[j].fact)' /\ (Open(j)' => Open(j))
        BY <2>1, <3>1 DEF AttemptInv, FundingFact, Open
    <3> QED
        BY <2>1, <3>1, <3>3, <3>4, <3>5 DEF AttemptInv
  <2> QED
      BY <2>2, <2>3
<1> QED
    BY <1>7, <1>8, <1>9 DEF AttemptsInv

LEMMA EnsureKeeps ==
    ASSUME PaymentsInv, NEW m \in Methods, EnsureFundingIntent(m)
    PROVE  PaymentsInv'
<1>1. /\ status = "AWAITING_PAYMENT" /\ payment \in Unpaid
      /\ UNCHANGED <<status, settlement, refundDue, ops, lookup, books, pcancel, ptr, sent>>
    BY DEF EnsureFundingIntent, Payable
<1>2. PICK o \in Answers :
         \/ OpenAttempt /\ CreateIntent(attempts, m, o) /\ attempts' = attempts /\ payment' = payment
         \/ ~OpenAttempt /\ attempts < MaxAttempts /\ attempts' = attempts + 1 /\ CreateIntent(attempts + 1, m, o)
            /\ payment' = IF payment = "FAILED" THEN "PENDING" ELSE payment
    BY DEF EnsureFundingIntent
<1>3. payment' \in Unpaid
    BY <1>1, <1>2 DEF Unpaid
<1>4. attempts \in 0..MaxAttempts /\ MaxAttempts \in Nat
    BY PaymentsAssumption DEF PaymentsInv, JournalTypes
<1>5. JournalTypes' /\ AttemptsInv' /\ FundingsMoveOn /\ FactsKept
  <2>1. CASE OpenAttempt /\ CreateIntent(attempts, m, o) /\ attempts' = attempts
    <3>1. attempts \in Attempts
        BY <1>4, <2>1 DEF OpenAttempt, Attempts
    <3> QED
        BY <1>1, <2>1, <3>1, CreateIntentKeeps
  <2>2. CASE ~OpenAttempt /\ attempts < MaxAttempts /\ attempts' = attempts + 1 /\ CreateIntent(attempts + 1, m, o)
    <3>1. attempts + 1 \in Attempts
        BY <1>4, <2>2 DEF Attempts
    <3> QED
        BY <1>1, <2>2, <3>1, CreateIntentKeeps
  <2> QED
      BY <1>2, <2>1, <2>2
<1>6. RowInv' /\ EventsInv' /\ TransfersInv' /\ BooksInv' /\ OutcomeIsProviderFact'
    BY <1>1, <1>3, <1>5, CheckoutKeeps
<1> QED
    BY <1>5, <1>6 DEF PaymentsInv

\* cancelFunding at the provider, whether or not the journal learns of it.
LEMMA CancelAtProviderKeeps ==
    ASSUME PaymentsInv, NEW c \in Attempts, Cancellable(c), CancelAtProvider(c)
    PROVE  /\ pfund' \in [Attempts -> FundStates] /\ pcancel' \in [Attempts -> BOOLEAN] /\ FundingsMoveOn
           /\ pcancel'[c] /\ pfund'[c] \in {"CANCELED", "SUCCEEDED", "RETURNED"}
           /\ \A i \in Attempts : i # c => pfund'[i] = pfund[i] /\ pcancel'[i] = pcancel[i]
           /\ \A e \in sent' : e \in sent \/ EventOK(e)'
<1>1. pfund \in [Attempts -> FundStates] /\ pcancel \in [Attempts -> BOOLEAN] /\ AttemptInv(c)
    BY DEF PaymentsInv, JournalTypes, AttemptsInv
<1>2. CASE pcancel[c]
    BY <1>1, <1>2 DEF CancelAtProvider, FundingsMoveOn, AttemptInv
<1>3. CASE ~pcancel[c]
  <2>1. pfund' = [pfund EXCEPT ![c] = "CANCELED"] /\ pcancel' = [pcancel EXCEPT ![c] = TRUE]
      BY <1>3 DEF CancelAtProvider
  <2>2. sent' = sent \cup {Event("funding", c, "CANCELED")}
      BY <1>3 DEF CancelAtProvider
  <2>3. pfund[c] \in {"REQUIRES_ACTION", "CANCELED", "PROCESSING"}
      BY <1>3 DEF Cancellable
  <2>4. FundingsMoveOn
      BY <1>1, <2>1, <2>3 DEF FundingsMoveOn
  <2>5. EventOK(Event("funding", c, "CANCELED"))'
      BY <1>1, <2>1 DEF EventOK, Event, FundingFact, FundFacts, Transfers
  <2>6. \A e \in sent' : e \in sent \/ EventOK(e)'
      BY <2>2, <2>5
  <2> QED
      BY <1>1, <2>1, <2>4, <2>6 DEF FundStates
<1> QED
    BY <1>2, <1>3

\* An attempt whose provider object may have been cancelled, and nothing else.
LEMMA CancelledAttempt ==
    ASSUME PaymentsInv, NEW i \in Attempts, NEW c \in Attempts, attempts' = attempts, status = "AWAITING_PAYMENT",
           (pfund'[i] = pfund[i] /\ pcancel'[i] = pcancel[i]) \/ (i = c /\ pfund'[i] \in {"CANCELED", "SUCCEEDED", "RETURNED"}),
           fund'[i] = fund[i] \/ (i = c /\ fund'[i].fact = "CANCELED" /\ fund'[i].op = fund[i].op),
           i = c => pfund'[i] \in {"CANCELED", "SUCCEEDED", "RETURNED"} /\ fund[i].fact \notin Closed,
           i = c => i <= attempts,
           status' = "AWAITING_PAYMENT" \/ i = c \/ (Open(i) => fund[i].op = "FAILED")
    PROVE  AttemptInv(i)'
<1>1. AttemptInv(i)
    BY DEF PaymentsInv, AttemptsInv
<1>2. i \in Int /\ attempts \in Int /\ MaxAttempts \in Nat
    BY PaymentsAssumption DEF PaymentsInv, JournalTypes, Attempts
<1>3. CASE i = c
    BY <1>1, <1>2, <1>3 DEF AttemptInv, FundingFact, Open, Closed
<1>4. CASE i # c
    BY <1>1, <1>2, <1>4 DEF AttemptInv, FundingFact, Open
<1> QED
    BY <1>3, <1>4

\* cancelOpenFunding: the order is cancelled once nothing is open.
LEMMA CancelOpenFundingKeeps ==
    ASSUME PaymentsInv, CancelOpenFunding, status = "AWAITING_PAYMENT", status' = "CANCELLED",
           UNCHANGED <<payment, settlement, refundDue, ops, ptr, attempts, lookup, books>>
    PROVE  PaymentsInv'
<1>0. /\ fund \in [Attempts -> FundRows] /\ attempts \in 0..MaxAttempts /\ MaxAttempts \in Nat /\ JournalTypes
      /\ payment \in Unpaid /\ \A i \in Attempts : AttemptInv(i)
    BY PaymentsAssumption DEF PaymentsInv, JournalTypes, RowInv, AttemptsInv
\* Whatever the journal does not show as open is not open at the provider, or was given up as failed.
<1>1. ASSUME NEW i \in Attempts, Open(i), fund[i].op # "FAILED"
      PROVE  i = attempts /\ i \in 1..attempts /\ fund[i].op = "SUCCEEDED" /\ fund[i].fact \notin Closed
  <2>1. AttemptInv(i) /\ i \in Int /\ i >= 1
      BY <1>0 DEF Attempts
  <2>2. i = attempts
      BY <1>0, <1>1, <2>1 DEF AttemptInv, Open
  <2>3. fund[i].op \in OpStates
      BY <1>0 DEF FundRows
  <2>4. fund[i].op \notin Unresolved
      BY <1>0, <2>1, <2>2 DEF CancelOpenFunding, UnresolvedAttempt
  <2>5. fund[i].op # "NONE"
      BY <2>1, <2>2 DEF AttemptInv
  <2> QED
      BY <1>0, <1>1, <2>1, <2>2, <2>3, <2>4, <2>5 DEF AttemptInv, FundingFact, Closed, Open, OpStates, Unresolved
<1>2. CASE ToCancel = 0
  <2>1. UNCHANGED <<fund, pfund, pcancel, sent>>
      BY <1>2, PaymentsAssumption, ToCancelOpen, <1>0 DEF CancelOpenFunding
  <2>2. \A i \in Attempts : Open(i) => fund[i].op = "FAILED"
      BY <1>0, <1>1, <1>2, ToCancelOpen
  <2>3. AttemptsInv'
      BY <1>0, <2>1, <2>2 DEF AttemptsInv, AttemptInv, FundingFact, Open
  <2>4. JournalTypes'
      BY <2>1 DEF PaymentsInv, JournalTypes
  <2>5. FundingsMoveOn /\ FactsKept /\ \A e \in sent' : e \in sent \/ EventOK(e)'
      BY <2>1 DEF FundingsMoveOn, FactsKept
  <2>6. RowInv' /\ EventsInv' /\ TransfersInv' /\ BooksInv' /\ OutcomeIsProviderFact'
      BY <1>0, <2>5, CheckoutKeeps
  <2> QED
      BY <2>3, <2>4, <2>6 DEF PaymentsInv
<1>3. CASE ToCancel # 0
  <2> DEFINE c == ToCancel
  <2>1. /\ c \in Attempts /\ c \in 1..attempts /\ fund[c].op = "SUCCEEDED" /\ fund[c].fact \notin Closed
        /\ \A i \in 1..attempts : fund[i].op = "SUCCEEDED" /\ i > c => fund[i].fact \in Closed
      BY <1>0, <1>3, ToCancelOpen
  <2>2. Cancellable(c) /\ CancelAtProvider(c) /\ fund' = [fund EXCEPT ![c].fact = "CANCELED"]
      BY <1>3 DEF CancelOpenFunding
  <2> HIDE DEF c
  <2>3. /\ pfund' \in [Attempts -> FundStates] /\ pcancel' \in [Attempts -> BOOLEAN] /\ FundingsMoveOn
        /\ pcancel'[c] /\ pfund'[c] \in {"CANCELED", "SUCCEEDED", "RETURNED"}
        /\ \A i \in Attempts : i # c => pfund'[i] = pfund[i] /\ pcancel'[i] = pcancel[i]
        /\ \A e \in sent' : e \in sent \/ EventOK(e)'
      BY <2>1, <2>2, CancelAtProviderKeeps
  <2>4. /\ fund' \in [Attempts -> FundRows] /\ fund'[c].fact = "CANCELED" /\ fund'[c].op = fund[c].op
        /\ \A i \in Attempts : i # c => fund'[i] = fund[i]
      BY <1>0, <2>1, <2>2 DEF FundRows, FundFacts
  <2>5. FactsKept
      BY <2>1, <2>4 DEF FactsKept, Closed
  <2>6. JournalTypes'
      BY <2>3, <2>4 DEF PaymentsInv, JournalTypes
  <2>7. AttemptsInv'
    <3> SUFFICES ASSUME NEW i \in Attempts
                 PROVE  AttemptInv(i)'
        BY DEF AttemptsInv
    <3>1. i # c => (Open(i) => fund[i].op = "FAILED")
      <4> SUFFICES ASSUME i # c, Open(i), fund[i].op # "FAILED"
                   PROVE  FALSE
          OBVIOUS
      <4>1. i = attempts /\ i \in 1..attempts /\ fund[i].op = "SUCCEEDED" /\ fund[i].fact \notin Closed
          BY <1>1
      <4>2. i > c
          BY <1>0, <2>1, <4>1
      <4> QED
          BY <2>1, <4>1, <4>2
    <3>2. c <= attempts
        BY <1>0, <2>1
    <3>3. /\ (pfund'[i] = pfund[i] /\ pcancel'[i] = pcancel[i]) \/ (i = c /\ pfund'[i] \in {"CANCELED", "SUCCEEDED", "RETURNED"})
          /\ fund'[i] = fund[i] \/ (i = c /\ fund'[i].fact = "CANCELED" /\ fund'[i].op = fund[i].op)
          /\ i = c => pfund'[i] \in {"CANCELED", "SUCCEEDED", "RETURNED"} /\ fund[i].fact \notin Closed
        BY <2>1, <2>3, <2>4
    <3>4. (i = c => i <= attempts) /\ (status' = "AWAITING_PAYMENT" \/ i = c \/ (Open(i) => fund[i].op = "FAILED"))
        BY <3>1, <3>2
    <3> QED
        BY <2>1, <3>3, <3>4, CancelledAttempt
  <2>8. RowInv' /\ EventsInv' /\ TransfersInv' /\ BooksInv' /\ OutcomeIsProviderFact'
      BY <1>0, <2>3, <2>5, CheckoutKeeps
  <2> QED
      BY <2>6, <2>7, <2>8 DEF PaymentsInv
<1> QED
    BY <1>2, <1>3

\* The call is lost and the transaction rolls back, or it was refused: the row stays unpaid.
LEMMA CancelLostKeeps ==
    ASSUME PaymentsInv, CancelCallLost \/ CancelRefused, status = "AWAITING_PAYMENT",
           UNCHANGED <<status, payment, settlement, refundDue, ops, ptr, attempts, lookup, books, fund>>
    PROVE  PaymentsInv'
<1>0. /\ fund \in [Attempts -> FundRows] /\ attempts \in 0..MaxAttempts /\ MaxAttempts \in Nat /\ JournalTypes
      /\ payment \in Unpaid /\ (\A i \in Attempts : AttemptInv(i)) /\ FactsKept
    BY PaymentsAssumption DEF PaymentsInv, JournalTypes, RowInv, AttemptsInv, FactsKept
<1>1. CASE CancelCallLost
  <2> DEFINE c == ToCancel
  <2>1. c \in Attempts /\ c \in 1..attempts /\ fund[c].fact \notin Closed /\ Cancellable(c) /\ CancelAtProvider(c)
      BY <1>0, <1>1, ToCancelOpen DEF CancelCallLost
  <2> HIDE DEF c
  <2>3. /\ pfund' \in [Attempts -> FundStates] /\ pcancel' \in [Attempts -> BOOLEAN] /\ FundingsMoveOn
        /\ pcancel'[c] /\ pfund'[c] \in {"CANCELED", "SUCCEEDED", "RETURNED"}
        /\ \A i \in Attempts : i # c => pfund'[i] = pfund[i] /\ pcancel'[i] = pcancel[i]
        /\ \A e \in sent' : e \in sent \/ EventOK(e)'
      BY <2>1, CancelAtProviderKeeps
  <2>4. JournalTypes'
      BY <2>3 DEF PaymentsInv, JournalTypes
  <2>5. c <= attempts
      BY <1>0, <2>1
  <2>6. AttemptsInv'
    <3> SUFFICES ASSUME NEW i \in Attempts
                 PROVE  AttemptInv(i)'
        BY DEF AttemptsInv
    <3>1. /\ (pfund'[i] = pfund[i] /\ pcancel'[i] = pcancel[i]) \/ (i = c /\ pfund'[i] \in {"CANCELED", "SUCCEEDED", "RETURNED"})
          /\ i = c => pfund'[i] \in {"CANCELED", "SUCCEEDED", "RETURNED"} /\ fund[i].fact \notin Closed
        BY <2>1, <2>3
    <3>2. /\ fund'[i] = fund[i] \/ (i = c /\ fund'[i].fact = "CANCELED" /\ fund'[i].op = fund[i].op)
          /\ i = c => i <= attempts
          /\ status' = "AWAITING_PAYMENT" \/ i = c \/ (Open(i) => fund[i].op = "FAILED")
        BY <2>5
    <3> QED
        BY <2>1, <3>1, <3>2, CancelledAttempt
  <2>7. RowInv' /\ EventsInv' /\ TransfersInv' /\ BooksInv' /\ OutcomeIsProviderFact'
      BY <1>0, <2>3, CheckoutKeeps
  <2> QED
      BY <2>4, <2>6, <2>7 DEF PaymentsInv
<1>2. CASE CancelRefused
  <2>1. UNCHANGED <<pfund, pcancel, sent>>
      BY <1>2 DEF CancelRefused
  <2>2. JournalTypes' /\ AttemptsInv'
      BY <1>0, <2>1 DEF JournalTypes, AttemptsInv, AttemptInv, FundingFact, Open
  <2>3. FundingsMoveOn /\ \A e \in sent' : e \in sent
      BY <2>1 DEF FundingsMoveOn
  <2>4. RowInv' /\ EventsInv' /\ TransfersInv' /\ BooksInv' /\ OutcomeIsProviderFact'
      BY <1>0, <2>3, CheckoutKeeps
  <2> QED
      BY <2>2, <2>4 DEF PaymentsInv
<1> QED
    BY <1>1, <1>2

LEMMA CancelUnpaidKeeps ==
    ASSUME PaymentsInv, CancelUnpaid \/ ExpireHold
    PROVE  PaymentsInv'
<1>1. UNCHANGED <<payment, settlement, refundDue, ops, ptr, attempts, lookup, books>> /\ status = "AWAITING_PAYMENT"
    BY DEF CancelUnpaid, ExpireHold, Untouched, others
<1>2. CASE CancelOpenFunding /\ status' = "CANCELLED"
    BY <1>1, <1>2, CancelOpenFundingKeeps
<1>3. CASE (CancelCallLost \/ CancelRefused) /\ UNCHANGED <<status, fund>>
    BY <1>1, <1>3, CancelLostKeeps
<1> QED
    BY <1>2, <1>3 DEF CancelUnpaid, ExpireHold

\* The other method: the open attempt is cancelled and the next one created in one transaction.
LEMMA SwitchKeeps ==
    ASSUME PaymentsInv, NEW m \in Methods, SwitchMethod(m)
    PROVE  PaymentsInv'
<1> DEFINE a == attempts
           b == attempts + 1
           cancels == ToCancel # 0 /\ ~pcancel[attempts]
<1>0. /\ fund \in [Attempts -> FundRows] /\ pfund \in [Attempts -> FundStates] /\ pcancel \in [Attempts -> BOOLEAN]
      /\ JournalTypes /\ MaxAttempts \in Nat /\ \A i \in Attempts : AttemptInv(i)
    BY PaymentsAssumption DEF PaymentsInv, JournalTypes, AttemptsInv
<1>1. /\ status = "AWAITING_PAYMENT" /\ payment \in Unpaid /\ OpenAttempt /\ ~UnresolvedAttempt /\ attempts < MaxAttempts
      /\ ToCancel \in {0, attempts} /\ (ToCancel # 0 => Cancellable(attempts))
      /\ UNCHANGED <<status, settlement, refundDue, ops, lookup, books, ptr>>
    BY DEF SwitchMethod, Payable
<1>2. a \in Attempts /\ b \in Attempts /\ a # b /\ a \in Int /\ a \in 1..attempts /\ attempts \in 0..MaxAttempts
    BY <1>0, <1>1 DEF JournalTypes, Attempts, OpenAttempt
<1>3. payment' \in Unpaid
    BY <1>1 DEF SwitchMethod, Unpaid
<1>4. PICK o \in Answers :
        /\ attempts' = b
        /\ fund' = [fund EXCEPT ![a].fact = IF ToCancel # 0 THEN "CANCELED" ELSE @,
                                ![b] = [op |-> StatusOf(o), fact |-> "NONE", method |-> m]]
        /\ pcancel' = [pcancel EXCEPT ![a] = @ \/ cancels]
        /\ pfund' = [pfund EXCEPT ![a] = IF cancels THEN "CANCELED" ELSE @,
                                  ![b] = IF Reaches(o) THEN "REQUIRES_ACTION" ELSE @]
        /\ sent' = IF cancels THEN sent \cup {Event("funding", a, "CANCELED")} ELSE sent
    BY DEF SwitchMethod
<1>5. StatusOf(o) \in {"SUCCEEDED", "PENDING", "UNKNOWN"}
    BY DEF StatusOf
<1>6. AttemptInv(a) /\ AttemptInv(b) /\ pfund[b] = "NONE" /\ fund[b] = NoFund
    BY <1>0, <1>2 DEF AttemptInv
<1>7. fund[a].op = "SUCCEEDED" /\ fund[a].fact \notin {"FAILED", "CANCELED"}
  <2>1. fund[a].op \in OpStates /\ fund[a].op \notin Unresolved /\ fund[a].op # "FAILED" /\ fund[a].op # "NONE"
      BY <1>0, <1>1, <1>2, <1>6 DEF FundRows, UnresolvedAttempt, OpenAttempt, AttemptInv
  <2> QED
      BY <1>1, <2>1 DEF OpStates, Unresolved, OpenAttempt
<1>8. (ToCancel # 0 => fund[a].fact \notin Closed) /\ (ToCancel = 0 => fund[a].fact \in Closed)
    BY <1>0, <1>1, <1>2, <1>7, ToCancelOpen
<1>9. cancels => pfund[a] \in {"REQUIRES_ACTION", "CANCELED", "PROCESSING"}
    BY <1>1 DEF Cancellable
<1> HIDE DEF cancels, a, b
<1>10. /\ pfund'[a] = IF cancels THEN "CANCELED" ELSE pfund[a]
       /\ pfund'[b] \in {"NONE", "REQUIRES_ACTION"} /\ pcancel'[a] = (pcancel[a] \/ cancels)
       /\ \A i \in Attempts : /\ i # a => pcancel'[i] = pcancel[i]
                              /\ i # a /\ i # b => pfund'[i] = pfund[i]
       /\ pfund' \in [Attempts -> FundStates] /\ pcancel' \in [Attempts -> BOOLEAN]
    BY <1>0, <1>2, <1>4, <1>6 DEF FundStates
<1>11. /\ fund'[a].op = fund[a].op /\ fund'[a].fact = (IF ToCancel # 0 THEN "CANCELED" ELSE fund[a].fact)
       /\ fund'[b].op = StatusOf(o) /\ fund'[b].fact = "NONE"
       /\ \A i \in Attempts : i # a /\ i # b => fund'[i] = fund[i]
       /\ fund' \in [Attempts -> FundRows]
    BY <1>0, <1>2, <1>4, <1>5 DEF FundRows, OpStates, FundFacts
<1>12. pfund'[a] \notin {"REQUIRES_ACTION", "PROCESSING"}
       /\ (ToCancel # 0 => pfund'[a] \in {"CANCELED", "SUCCEEDED", "RETURNED"})
  <2>1. CASE ToCancel # 0
      BY <1>6, <1>10, <2>1 DEF cancels, AttemptInv, a
  <2>2. CASE ToCancel = 0
      BY <1>6, <1>8, <1>10, <2>2 DEF cancels, AttemptInv, FundingFact, Closed
  <2> QED
      BY <2>1, <2>2
<1>13. FundingsMoveOn
    BY <1>6, <1>9, <1>10 DEF FundingsMoveOn
<1>14. FactsKept
    BY <1>6, <1>8, <1>11 DEF FactsKept, Closed, NoFund
<1>15. JournalTypes'
    BY <1>1, <1>2, <1>4, <1>10, <1>11 DEF JournalTypes, PaymentsInv, Attempts
<1>16. \A e \in sent' : e \in sent \/ EventOK(e)'
  <2>1. CASE cancels
    <3>1. PICK n \in Attempts : n = a
        BY <1>2
    <3>2. pfund'[n] = "CANCELED"
        BY <1>10, <2>1, <3>1
    <3>3. EventOK(Event("funding", n, "CANCELED"))'
        BY <3>2 DEF EventOK, Event, FundingFact, FundFacts, Transfers
    <3> QED
        BY <1>4, <2>1, <3>1, <3>3
  <2>2. CASE ~cancels
      BY <1>4, <2>2
  <2> QED
      BY <2>1, <2>2
<1>17. ASSUME NEW i \in Attempts
       PROVE  AttemptInv(i)'
  <2>1. AttemptInv(i) /\ i \in Int /\ attempts' = attempts + 1 /\ attempts \in Int /\ a = attempts /\ b = attempts + 1
      BY <1>0, <1>2, <1>4 DEF Attempts, a, b
  <2>2. CASE i = a
    <3>1. FundingFact(i, fund[i].fact)'
      <4>1. CASE ToCancel # 0
          BY <1>11, <1>12, <2>2, <4>1 DEF FundingFact
      <4>2. CASE ToCancel = 0
          BY <1>6, <1>10, <1>11, <2>2, <4>2 DEF FundingFact, AttemptInv, cancels
      <4> QED
          BY <4>1, <4>2
    <3>2. pcancel'[i] => pfund'[i] \in {"CANCELED", "SUCCEEDED", "RETURNED"}
        BY <1>6, <1>10, <2>2 DEF AttemptInv
    <3>3. ~Open(i)'
        BY <1>12, <2>2 DEF Open
    <3> QED
        BY <1>7, <1>11, <2>1, <2>2, <3>1, <3>2, <3>3 DEF AttemptInv
  <2>3. CASE i = b
    <3>1. FundingFact(i, fund[i].fact)'
        BY <1>11, <2>3 DEF FundingFact
    <3>2. ~pcancel'[i]
        BY <1>2, <1>6, <1>10, <2>3 DEF AttemptInv
    <3> QED
        BY <1>1, <1>5, <1>11, <2>1, <2>3, <3>1, <3>2 DEF AttemptInv
  <2>4. CASE i # a /\ i # b
    <3>1. fund'[i] = fund[i] /\ pfund'[i] = pfund[i] /\ pcancel'[i] = pcancel[i]
        BY <1>10, <1>11, <2>4
    <3> QED
        BY <1>1, <2>1, <2>4, <3>1 DEF AttemptInv, FundingFact, Open
  <2> QED
      BY <2>2, <2>3, <2>4
<1>18. RowInv' /\ EventsInv' /\ TransfersInv' /\ BooksInv' /\ OutcomeIsProviderFact'
    BY <1>1, <1>3, <1>13, <1>14, <1>16, CheckoutKeeps
<1> QED
    BY <1>15, <1>17, <1>18 DEF PaymentsInv, AttemptsInv

\* The lookup of an unresolved attempt, and its answer written back later.
LEMMA LookupKeeps ==
    ASSUME PaymentsInv, ResolveFunding \/ \E i \in Attempts : LookupFunding(i)
    PROVE  PaymentsInv'
<1>1. UNCHANGED <<status, payment, settlement, refundDue, attempts, ops, books, pfund, pcancel, ptr, sent>>
    BY DEF ResolveFunding, LookupFunding, row, provider
<1>2. \A i \in Attempts : i \in 0..MaxAttempts
    BY PaymentsAssumption DEF Attempts
<1>3. /\ fund \in [Attempts -> FundRows] /\ lookup \in [fund : 0..MaxAttempts, applied : BOOLEAN]
      /\ (lookup # NoLookup => lookup.fund \in Attempts) /\ \A i \in Attempts : AttemptInv(i)
    BY DEF PaymentsInv, JournalTypes, AttemptsInv
<1>4. /\ fund' \in [Attempts -> FundRows] /\ lookup' \in [fund : 0..MaxAttempts, applied : BOOLEAN]
      /\ lookup' # NoLookup => lookup'.fund \in Attempts
      /\ \A i \in Attempts : /\ fund'[i].fact = fund[i].fact
                             /\ fund'[i].op = fund[i].op
                                \/ (fund[i].op \in Unresolved /\ fund'[i].op \in {"SUCCEEDED", "FAILED"})
                             /\ fund[i] = NoFund => fund'[i] = NoFund
  <2>1. CASE ResolveFunding
    <3> DEFINE i == lookup.fund
               op == IF fund[i].op \notin Unresolved THEN fund[i].op ELSE IF lookup.applied THEN "SUCCEEDED" ELSE "FAILED"
    <3>1. i \in Attempts /\ lookup' = NoLookup /\ fund' = [fund EXCEPT ![i].op = op]
        BY <1>3, <2>1 DEF ResolveFunding
    <3>2. op \in OpStates /\ (op = fund[i].op \/ (fund[i].op \in Unresolved /\ op \in {"SUCCEEDED", "FAILED"}))
        BY <1>3, <3>1 DEF FundRows, OpStates
    <3> HIDE DEF i, op
    <3>3. fund' \in [Attempts -> FundRows] /\ \A j \in Attempts : fund'[j].fact = fund[j].fact
        BY <1>3, <3>1, <3>2 DEF FundRows
    <3>4. fund'[i].op = op /\ \A j \in Attempts : j # i => fund'[j] = fund[j]
        BY <1>3, <3>1 DEF FundRows
    <3>5. fund[i] = NoFund => fund'[i] = NoFund
      <4>1. fund[i] = NoFund => op = "NONE"
          BY <3>2 DEF NoFund, Unresolved
      <4>2. fund[i] = NoFund => [fund[i] EXCEPT !.op = "NONE"] = NoFund
          BY DEF NoFund
      <4> QED
          BY <1>3, <3>1, <4>1, <4>2
    <3>6. lookup' \in [fund : 0..MaxAttempts, applied : BOOLEAN]
        BY <3>1, PaymentsAssumption DEF NoLookup
    <3> QED
        BY <3>1, <3>2, <3>3, <3>4, <3>5, <3>6
  <2>2. CASE \E i \in Attempts : LookupFunding(i)
      BY <1>2, <1>3, <2>2 DEF LookupFunding
  <2> QED
      BY <2>1, <2>2
<1>5. JournalTypes'
    BY <1>1, <1>4 DEF PaymentsInv, JournalTypes
<1>6. AttemptsInv'
    BY <1>1, <1>3, <1>4 DEF AttemptsInv, AttemptInv, FundingFact, Open, Unresolved
<1>7. RowInv' /\ EventsInv' /\ OutcomeIsProviderFact'
    BY <1>1 DEF PaymentsInv, RowInv, RowTypes, EventsInv, EventOK, FundingFact, OutcomeIsProviderFact, RemainderOf
<1>8. TransfersInv'
    BY <1>1, <1>4 DEF PaymentsInv, TransfersInv, TransferInv, Drawn, ReleaseAsked, RemainderOf
<1>9. BooksInv'
    BY <1>1, <1>4 DEF PaymentsInv, BooksInv, Booked, FundingBook, RefundBook, ReleaseBook, RemainderOf
<1> QED
    BY <1>5, <1>6, <1>7, <1>8, <1>9 DEF PaymentsInv

-----------------------------------------------------------------------------
(* Refunds and releases *)

\* A transfer asked of the provider: drawn on a confirmed funding, and never beyond what the other one leaves of it.
LEMMA RequestKeeps ==
    ASSUME PaymentsInv, NEW t \in Transfers, NEW req \in Reqs, req.fund \in Attempts, fund[req.fund].fact = "SUCCEEDED",
           NEW commits \in BOOLEAN, Request(t, req, commits), UNCHANGED <<fund, pfund>>
    PROVE  /\ ops' \in [Transfers -> OpRows] /\ ptr' \in [Transfers -> TransferRows]
           /\ \A u \in Transfers : u # t => ops'[u] = ops[u] /\ ptr'[u] = ptr[u]
           /\ ops'[t].req \in {ops[t].req, req} /\ ptr'[t].req \in {ptr[t].req, req}
           /\ ptr[t].status = "SUCCEEDED" => ptr'[t] = ptr[t]
           /\ \A u \in Transfers : TransferInv(u)'
           /\ \A i \in Attempts : (Drawn("refund", i) + Drawn("release", i) <= Amount)'
           /\ \A e \in sent' : e \in sent \/ EventOK(e)'
<1>0. /\ ops \in [Transfers -> OpRows] /\ ptr \in [Transfers -> TransferRows] /\ pfund \in [Attempts -> FundStates]
      /\ Amount \in Nat /\ \A u \in Transfers : TransferInv(u)
    BY PaymentsAssumption DEF PaymentsInv, JournalTypes, TransfersInv
<1>1. ASSUME NEW new \in OpStates,
             ops' = IF new = "FAILED" /\ ~commits THEN ops ELSE [ops EXCEPT ![t].op = new, ![t].req = req]
      PROVE  /\ ops' \in [Transfers -> OpRows] /\ ops'[t].req \in {ops[t].req, req}
             /\ \A u \in Transfers : u # t => ops'[u] = ops[u]
    BY <1>0, <1>1 DEF OpRows
<1>2. CASE UNCHANGED <<ptr, sent>> /\ \E new \in {"SUCCEEDED", "FAILED"} :
             ops' = IF new = "FAILED" /\ ~commits THEN ops ELSE [ops EXCEPT ![t].op = new, ![t].req = req]
  <2>1. /\ ops' \in [Transfers -> OpRows] /\ ops'[t].req \in {ops[t].req, req}
        /\ \A u \in Transfers : u # t => ops'[u] = ops[u]
      BY <1>1, <1>2 DEF OpStates
  <2>2. \A u \in Transfers : TransferInv(u)'
      BY <1>0, <1>2 DEF TransferInv
  <2>3. \A i \in Attempts : (Drawn("refund", i) + Drawn("release", i) <= Amount)'
      BY <1>2 DEF PaymentsInv, TransfersInv, Drawn
  <2> QED
      BY <1>0, <1>2, <2>1, <2>2, <2>3
<1>3. ASSUME NEW o \in Answers, ~ptr[t].applied, NEW moves \in BOOLEAN, moves = (Reaches(o) /\ req.amount <= Available(req.fund)),
             ops' = IF (IF Reaches(o) /\ ~moves THEN "FAILED" ELSE StatusOf(o)) = "FAILED" /\ ~commits THEN ops
                    ELSE [ops EXCEPT ![t].op = IF Reaches(o) /\ ~moves THEN "FAILED" ELSE StatusOf(o), ![t].req = req],
             ptr' = [ptr EXCEPT ![t] = IF moves THEN [applied |-> TRUE, req |-> req, status |-> "PENDING"]
                                       ELSE [NoTransfer EXCEPT !.req = req]],
             sent' = IF moves THEN sent \cup {Event(t, 0, "PENDING")} ELSE sent
      PROVE  /\ ops' \in [Transfers -> OpRows] /\ ptr' \in [Transfers -> TransferRows]
             /\ \A u \in Transfers : u # t => ops'[u] = ops[u] /\ ptr'[u] = ptr[u]
             /\ ops'[t].req \in {ops[t].req, req} /\ ptr'[t].req \in {ptr[t].req, req}
             /\ ptr[t].status = "SUCCEEDED" => ptr'[t] = ptr[t]
             /\ \A u \in Transfers : TransferInv(u)'
             /\ \A i \in Attempts : (Drawn("refund", i) + Drawn("release", i) <= Amount)'
             /\ \A e \in sent' : e \in sent \/ EventOK(e)'
  <2>1. /\ ops' \in [Transfers -> OpRows] /\ ops'[t].req \in {ops[t].req, req}
        /\ \A u \in Transfers : u # t => ops'[u] = ops[u]
    <3>1. (IF Reaches(o) /\ ~moves THEN "FAILED" ELSE StatusOf(o)) \in OpStates
        BY DEF StatusOf, OpStates
    <3> QED
        BY <1>1, <1>3, <3>1
  <2>2. ptr[t].status = "NONE"
      BY <1>0, <1>3 DEF TransferInv
  <2> DEFINE p == IF moves THEN [applied |-> TRUE, req |-> req, status |-> "PENDING"] ELSE [NoTransfer EXCEPT !.req = req]
  <2>3. /\ p \in TransferRows /\ p.req = req /\ p.applied = moves
        /\ p.status = IF moves THEN "PENDING" ELSE "NONE"
      BY DEF TransferRows, TransferFacts, NoTransfer
  <2>4. ptr'[t] = p /\ ptr' \in [Transfers -> TransferRows] /\ \A u \in Transfers : u # t => ptr'[u] = ptr[u]
      BY <1>0, <1>3, <2>3
  <2> HIDE DEF p
  <2>5. \A u \in Transfers : TransferInv(u)'
      BY <1>0, <2>3, <2>4 DEF TransferInv
  <2>6. ASSUME NEW i \in Attempts
        PROVE  (Drawn("refund", i) + Drawn("release", i) <= Amount)'
    <3>1. \A u \in Transfers : ptr[u].req.amount \in Nat /\ ptr[u].req.amount <= Amount
        BY <1>0 DEF TransferRows, Reqs
    <3>2. req.amount \in Nat /\ req.amount <= Amount
        BY <1>0 DEF Reqs
    <3>3. \A u \in Transfers : u # t => Drawn(u, i)' = Drawn(u, i)
        BY <2>4 DEF Drawn
    <3>4. Drawn(t, i) = 0 /\ Drawn(t, i)' = IF i = req.fund /\ moves THEN req.amount ELSE 0
        BY <2>2, <2>3, <2>4 DEF Drawn
    <3>5. Drawn("refund", i) \in Nat /\ Drawn("release", i) \in Nat /\ Drawn("refund", i) + Drawn("release", i) <= Amount
        BY <3>1 DEF PaymentsInv, TransfersInv, Drawn, Transfers
    <3>6. moves => req.amount <= Amount - Drawn("refund", req.fund) - Drawn("release", req.fund)
      <4>1. Available(req.fund) = IF pfund[req.fund] = "SUCCEEDED"
                                  THEN Amount - Drawn("refund", req.fund) - Drawn("release", req.fund) ELSE 0
          BY DEF Available, Drawn
      <4>2. Drawn("refund", req.fund) \in Nat /\ Drawn("release", req.fund) \in Nat
            /\ Drawn("refund", req.fund) + Drawn("release", req.fund) <= Amount
          BY <3>1 DEF PaymentsInv, TransfersInv, Drawn, Transfers
      <4>3. moves => req.amount <= Available(req.fund)
          BY <1>3
      <4> HIDE DEF Drawn, Available
      <4> QED
          BY <1>0, <3>2, <4>1, <4>2, <4>3
    <3>7. CASE t = "refund"
        BY <1>0, <3>2, <3>3, <3>4, <3>5, <3>6, <3>7 DEF Transfers
    <3>8. CASE t = "release"
        BY <1>0, <3>2, <3>3, <3>4, <3>5, <3>6, <3>8 DEF Transfers
    <3> QED
        BY <3>7, <3>8 DEF Transfers
  <2>7. \A e \in sent' : e \in sent \/ EventOK(e)'
    <3>1. EventOK(Event(t, 0, "PENDING"))'
        BY DEF EventOK, Event, Transfers, TransferFacts
    <3> QED
        BY <1>3, <3>1
  <2> QED
      BY <2>1, <2>2, <2>3, <2>4, <2>5, <2>6, <2>7
<1>4. CASE ptr[t].applied /\ ptr[t].req = req /\ UNCHANGED <<ptr, sent>>
           /\ ops' = IF "SUCCEEDED" = "FAILED" /\ ~commits THEN ops ELSE [ops EXCEPT ![t].op = "SUCCEEDED", ![t].req = req]
    BY <1>2, <1>4
<1>5. CASE UNCHANGED <<ptr, sent>>
           /\ ops' = IF "FAILED" = "FAILED" /\ ~commits THEN ops ELSE [ops EXCEPT ![t].op = "FAILED", ![t].req = req]
    BY <1>2, <1>5
<1>6. CASE \E o \in Answers : /\ ~ptr[t].applied
           /\ LET moves == Reaches(o) /\ req.amount <= Available(req.fund)
                  new == IF Reaches(o) /\ ~moves THEN "FAILED" ELSE StatusOf(o)
              IN  /\ ops' = IF new = "FAILED" /\ ~commits THEN ops ELSE [ops EXCEPT ![t].op = new, ![t].req = req]
                  /\ ptr' = [ptr EXCEPT ![t] = IF moves THEN [applied |-> TRUE, req |-> req, status |-> "PENDING"]
                                               ELSE [NoTransfer EXCEPT !.req = req]]
                  /\ sent' = IF moves THEN sent \cup {Event(t, 0, "PENDING")} ELSE sent
  <2>1. PICK o \in Answers : /\ ~ptr[t].applied
           /\ LET moves == Reaches(o) /\ req.amount <= Available(req.fund)
                  new == IF Reaches(o) /\ ~moves THEN "FAILED" ELSE StatusOf(o)
              IN  /\ ops' = IF new = "FAILED" /\ ~commits THEN ops ELSE [ops EXCEPT ![t].op = new, ![t].req = req]
                  /\ ptr' = [ptr EXCEPT ![t] = IF moves THEN [applied |-> TRUE, req |-> req, status |-> "PENDING"]
                                               ELSE [NoTransfer EXCEPT !.req = req]]
                  /\ sent' = IF moves THEN sent \cup {Event(t, 0, "PENDING")} ELSE sent
      BY <1>6
  <2>2. PICK moves \in BOOLEAN : moves = (Reaches(o) /\ req.amount <= Available(req.fund))
      BY Zenon
  <2> QED
      BY <1>3, <2>1, <2>2
<1> QED
    BY <1>4, <1>5, <1>6 DEF Request

\* No refund is asked for, or one drawn on a confirmed funding is.
RefundCall ==
    \/ UNCHANGED <<ops, ptr, sent>>
    \/ \E req \in Reqs, commits \in BOOLEAN :
          req.fund \in Attempts /\ fund[req.fund].fact = "SUCCEEDED" /\ Request("refund", req, commits)

LEMMA RefundReqs ==
    ASSUME PaymentsInv, NEW due \in {NoAmount} \cup 0..Amount, NEW reason \in Reasons,
           ~Refused("refund", RefundReq(due, reason))
    PROVE  LET req == RefundReq(due, reason)
           IN  req \in Reqs /\ req.fund \in Attempts /\ fund[req.fund].fact = "SUCCEEDED"
<1>1. FundedBy # 0 /\ JournalTypes /\ Amount \in Nat /\ MaxAttempts \in Nat
    BY PaymentsAssumption DEF Refused, RefundReq, PaymentsInv
<1>2. FundedBy \in Attempts /\ fund[FundedBy].fact = "SUCCEEDED"
    BY <1>1, FundedByConfirmed
<1>3. RefundAmount(due) \in 0..Amount /\ FundedBy \in 0..MaxAttempts
    BY <1>1, <1>2 DEF RefundAmount, Attempts
<1> QED
    BY <1>2, <1>3 DEF RefundReq, Reqs

LEMMA RefundOrCaseCalls ==
    ASSUME PaymentsInv, NEW due \in {NoAmount} \cup 0..Amount, NEW reason \in Reasons, RefundOrCase(due, reason)
    PROVE  RefundCall
<1>1. CASE Refused("refund", RefundReq(due, reason)) /\ UNCHANGED <<ops, ptr, sent, faults>>
    BY <1>1 DEF RefundCall
<1>2. CASE ~Refused("refund", RefundReq(due, reason)) /\ Request("refund", RefundReq(due, reason), TRUE)
    BY <1>2, RefundReqs DEF RefundCall
<1> QED
    BY <1>1, <1>2 DEF RefundOrCase

\* A command that keeps the row but for a refund it asks for, or ends work on an order not settled yet.
LEMMA RefundKeeps ==
    ASSUME PaymentsInv, RowInv', UNCHANGED <<fund, pfund, pcancel, attempts, lookup, books>>, RefundCall,
           \/ /\ UNCHANGED <<status, settlement, refundDue>>
              /\ payment' = payment \/ (payment \in Unpaid /\ payment' = "REFUND_PENDING")
           \/ /\ settlement = "NOT_READY" /\ settlement' # "RELEASED"
              /\ payment \in {"SUCCEEDED", "RETURNED"} /\ payment' \in {payment, "REFUND_PENDING"}
    PROVE  PaymentsInv'
<1>0. JournalTypes /\ RowInv /\ EventsInv /\ AttemptsInv /\ TransfersInv /\ BooksInv /\ OutcomeIsProviderFact
    BY DEF PaymentsInv
<1>1. /\ ops' \in [Transfers -> OpRows] /\ ptr' \in [Transfers -> TransferRows]
      /\ ops'["release"] = ops["release"] /\ ptr'["release"] = ptr["release"]
      /\ ptr["refund"].status = "SUCCEEDED" => ptr'["refund"] = ptr["refund"]
      /\ \A u \in Transfers : TransferInv(u)'
      /\ \A i \in Attempts : (Drawn("refund", i) + Drawn("release", i) <= Amount)'
      /\ \A e \in sent' : e \in sent \/ EventOK(e)'
  <2>1. CASE UNCHANGED <<ops, ptr, sent>>
    <3>1. ops' \in [Transfers -> OpRows] /\ ptr' \in [Transfers -> TransferRows]
        BY <1>0, <2>1 DEF JournalTypes
    <3>2. \A u \in Transfers : TransferInv(u)'
        BY <1>0, <2>1 DEF TransfersInv, TransferInv
    <3>3. \A i \in Attempts : (Drawn("refund", i) + Drawn("release", i) <= Amount)'
        BY <1>0, <2>1 DEF TransfersInv, Drawn
    <3> QED
        BY <2>1, <3>1, <3>2, <3>3
  <2>2. ASSUME NEW req \in Reqs, NEW commits \in BOOLEAN, req.fund \in Attempts, fund[req.fund].fact = "SUCCEEDED",
               Request("refund", req, commits)
        PROVE  <1>1!1 /\ <1>1!2 /\ <1>1!3 /\ <1>1!4 /\ <1>1!5 /\ <1>1!6
    <3> QED
        BY <2>2, RequestKeeps DEF Transfers
  <2> QED
      BY <2>1, <2>2 DEF RefundCall
<1>2. JournalTypes'
    BY <1>0, <1>1 DEF JournalTypes
<1>3. EventsInv'
  <2>1. FundingsMoveOn
      BY DEF FundingsMoveOn
  <2>2. \A t \in Transfers : ptr[t].status = "SUCCEEDED" => ptr'[t].status = "SUCCEEDED"
      BY <1>1 DEF Transfers
  <2> QED
      BY <1>0, <1>1, <2>1, <2>2, EventsKept
<1>4. AttemptsInv'
    BY <1>0 DEF AttemptsInv, AttemptInv, FundingFact, Open, RowInv, RowTypes, Unpaid
<1>5. TransfersInv'
  <2>1. ReleaseAsked(ptr["release"].req)' /\ ReleaseAsked(ops["release"].req)'
      BY <1>0, <1>1 DEF TransfersInv, ReleaseAsked, RemainderOf
  <2> QED
      BY <1>1, <2>1 DEF TransfersInv
<1>6. BooksInv'
  <2>1. Booked({"funding"})' = {FundingBook(i) : i \in {j \in Attempts : fund[j].fact = "SUCCEEDED"}}'
      BY <1>0 DEF BooksInv, Booked, FundingBook
  <2>2. Booked({"refund"})' = Booked({"refund"}) /\ Booked({"release"})' = Booked({"release"})
        /\ Booked({"bank-return", "bank-loss"})' = Booked({"bank-return", "bank-loss"})
      BY DEF Booked
  <2>3. Booked({"refund"})' = IF payment' \in {"REFUNDED", "PARTIALLY_REFUNDED"} THEN {RefundBook'} ELSE {}
      BY <1>0, <2>2 DEF BooksInv, RefundBook, Unpaid
  <2>4. Booked({"release"})' = IF settlement' = "RELEASED" THEN {ReleaseBook'} ELSE {}
      BY <1>0, <2>2 DEF BooksInv, ReleaseBook, RemainderOf
  <2>5. payment' = "RETURNED" => Booked({"bank-return", "bank-loss"})' # {}
      BY <1>0, <2>2 DEF BooksInv
  <2> QED
      BY <2>1, <2>3, <2>4, <2>5 DEF BooksInv
<1>7. OutcomeIsProviderFact'
    BY <1>0, <1>1 DEF OutcomeIsProviderFact, RemainderOf, Unpaid
<1> QED
    BY <1>2, <1>3, <1>4, <1>5, <1>6, <1>7 DEF PaymentsInv

\* Commands on a paid order.
LEMMA CommandKeeps ==
    ASSUME PaymentsInv,
           \/ Start \/ Approve \/ CancelFunded \/ RefundLateFunding \/ RetryPendingRefund
           \/ \E refund \in 0..Amount : AcceptCancellation(refund)
           \/ \E refund \in 1..Amount : ResolveRefund(refund)
           \/ \E reason \in {"BUYER_CANCELED_BEFORE_WORK", "MUTUAL_CANCELLATION", "OPERATOR_RESOLUTION"} : RetryRefund(reason)
    PROVE  PaymentsInv'
<1>0. RowInv /\ RowTypes /\ Amount \in Nat \ {0} /\ refundDue \in {NoAmount} \cup 0..Amount
    BY PaymentsAssumption DEF PaymentsInv, RowInv, RowTypes
<1>1. UNCHANGED <<fund, pfund, pcancel, attempts, lookup, books>>
    BY DEF Start, Approve, CancelFunded, RefundLateFunding, RetryPendingRefund, AcceptCancellation, ResolveRefund,
           RetryRefund, Untouched, others
<1> DEFINE RowKept == /\ UNCHANGED <<status, settlement, refundDue>>
                      /\ payment' = payment \/ (payment \in Unpaid /\ payment' = "REFUND_PENDING")
           WorkEnds == /\ settlement = "NOT_READY" /\ settlement' # "RELEASED"
                       /\ payment \in {"SUCCEEDED", "RETURNED"} /\ payment' \in {payment, "REFUND_PENDING"}
<1>2. CASE Start \/ Approve
  <2>1. RefundCall
      BY <1>2 DEF Start, Approve, RefundCall
  <2>2. RowInv' /\ WorkEnds
      BY <1>0, <1>2 DEF Start, Approve, RowInv, RowTypes, Unpaid
  <2> QED
      BY <1>1, <2>1, <2>2, RefundKeeps
<1>3. CASE CancelFunded
  <2>1. RefundCall
      BY <1>0, <1>3, RefundOrCaseCalls DEF CancelFunded, RefundReasonFor, Reasons
  <2>2. RowInv' /\ WorkEnds
      BY <1>0, <1>3 DEF CancelFunded, RowInv, RowTypes, Unpaid, NoAmount
  <2> QED
      BY <1>1, <2>1, <2>2, RefundKeeps
<1>4. ASSUME NEW refund \in 0..Amount, AcceptCancellation(refund)
      PROVE  PaymentsInv'
  <2>1. RefundCall
    <3>1. CASE refund > 0
        BY <1>4, <3>1, RefundOrCaseCalls DEF AcceptCancellation, Reasons
    <3>2. CASE ~(refund > 0)
        BY <1>4, <3>2 DEF AcceptCancellation, RefundCall
    <3> QED
        BY <3>1, <3>2
  <2>2. RowInv' /\ WorkEnds
      BY <1>0, <1>4 DEF AcceptCancellation, RowInv, RowTypes, Unpaid, NoAmount
  <2> QED
      BY <1>1, <2>1, <2>2, RefundKeeps
<1>5. ASSUME NEW refund \in 1..Amount, ResolveRefund(refund)
      PROVE  PaymentsInv'
  <2>1. PICK due \in {NoAmount} \cup 0..Amount : due = refundDue' /\ RefundOrCase(due, "OPERATOR_RESOLUTION")
      BY <1>0, <1>5 DEF ResolveRefund
  <2>2. RefundCall
      BY <2>1, RefundOrCaseCalls DEF Reasons
  <2>3. RowInv' /\ WorkEnds
      BY <1>0, <1>5 DEF ResolveRefund, RowInv, RowTypes, Unpaid, NoAmount
  <2> QED
      BY <1>1, <2>2, <2>3, RefundKeeps
<1>6. ASSUME NEW reason \in Reasons, NEW commits \in BOOLEAN, RowKept, RowInv',
             ~Refused("refund", RefundReq(refundDue, reason)), Request("refund", RefundReq(refundDue, reason), commits)
      PROVE  PaymentsInv'
  <2>1. RefundCall
      BY <1>0, <1>6, RefundReqs DEF RefundCall
  <2> QED
      BY <1>1, <1>6, <2>1, RefundKeeps
<1>7. CASE RefundLateFunding
  <2>1. RowKept /\ RowInv'
      BY <1>0, <1>7 DEF RefundLateFunding, RowInv, RowTypes, Unpaid
  <2> QED
      BY <1>6, <1>7, <2>1 DEF RefundLateFunding, Reasons
<1>8. CASE RetryPendingRefund
  <2>1. RowKept /\ RowInv'
      BY <1>0, <1>8 DEF RetryPendingRefund, RowInv, RowTypes
  <2> QED
      BY <1>6, <1>8, <2>1 DEF RetryPendingRefund, Reasons, RefundReasonFor
<1>9. ASSUME NEW reason \in {"BUYER_CANCELED_BEFORE_WORK", "MUTUAL_CANCELLATION", "OPERATOR_RESOLUTION"}, RetryRefund(reason)
      PROVE  PaymentsInv'
  <2>1. RowKept /\ RowInv'
      BY <1>0, <1>9 DEF RetryRefund, RowInv, RowTypes
  <2> QED
      BY <1>6, <1>9, <2>1 DEF RetryRefund, Reasons
<1> QED
    BY <1>2, <1>3, <1>4, <1>5, <1>7, <1>8, <1>9

\* requestCreatorRelease on a settlement that is ready or under way.
LEMMA ReleaseKeeps ==
    ASSUME PaymentsInv, RequestRelease, settlement \in {"READY", "PENDING"}
    PROVE  PaymentsInv'
<1>0. /\ JournalTypes /\ RowInv /\ EventsInv /\ AttemptsInv /\ TransfersInv /\ BooksInv /\ OutcomeIsProviderFact
      /\ Amount \in Nat \ {0} /\ MaxAttempts \in Nat
    BY PaymentsAssumption DEF PaymentsInv
<1>1. /\ UNCHANGED <<status, payment, refundDue, fund, pfund, pcancel, attempts, lookup, books>>
      /\ settlement' = settlement \/ (settlement = "READY" /\ settlement' = "PENDING")
    BY DEF RequestRelease, Untouched, others
<1> DEFINE req == ReleaseReq
<1>2. req.fund \in Attempts /\ fund[req.fund].fact = "SUCCEEDED"
    BY <1>0, FundedByConfirmed DEF RequestRelease, Refused, ReleaseReq
<1>3. RemainderOf(refundDue) \in 0..Amount
    BY <1>0 DEF RemainderOf, RowInv, RowTypes, NoAmount
<1>4. req \in Reqs /\ req.amount = RemainderOf(refundDue)
    BY <1>0, <1>2, <1>3 DEF ReleaseReq, Reqs, Attempts, Reasons
<1>5. Request("release", req, TRUE)
    BY DEF RequestRelease
<1> HIDE DEF req
<1>6. /\ ops' \in [Transfers -> OpRows] /\ ptr' \in [Transfers -> TransferRows]
      /\ ops'["refund"] = ops["refund"] /\ ptr'["refund"] = ptr["refund"]
      /\ ops'["release"].req \in {ops["release"].req, req} /\ ptr'["release"].req \in {ptr["release"].req, req}
      /\ ptr["release"].status = "SUCCEEDED" => ptr'["release"] = ptr["release"]
      /\ \A u \in Transfers : TransferInv(u)'
      /\ \A i \in Attempts : (Drawn("refund", i) + Drawn("release", i) <= Amount)'
      /\ \A e \in sent' : e \in sent \/ EventOK(e)'
    BY <1>1, <1>2, <1>4, <1>5, RequestKeeps DEF Transfers
<1>7. JournalTypes' /\ RowInv'
    BY <1>0, <1>1, <1>6 DEF JournalTypes, RowInv, RowTypes
<1>8. EventsInv'
  <2>1. FundingsMoveOn
      BY <1>1 DEF FundingsMoveOn
  <2>2. \A t \in Transfers : ptr[t].status = "SUCCEEDED" => ptr'[t].status = "SUCCEEDED"
      BY <1>6 DEF Transfers
  <2> QED
      BY <1>0, <1>6, <2>1, <2>2, EventsKept
<1>9. AttemptsInv'
    BY <1>0, <1>1 DEF AttemptsInv, AttemptInv, FundingFact, Open
<1>10. TransfersInv'
  <2>1. ReleaseAsked(ptr["release"].req)' /\ ReleaseAsked(ops["release"].req)'
      BY <1>0, <1>1, <1>4, <1>6 DEF TransfersInv, ReleaseAsked, RemainderOf
  <2> QED
      BY <1>6, <2>1 DEF TransfersInv
<1>11. BooksInv'
    BY <1>0, <1>1 DEF BooksInv, Booked, FundingBook, RefundBook, ReleaseBook, RemainderOf
<1>12. OutcomeIsProviderFact'
    BY <1>0, <1>1, <1>6 DEF OutcomeIsProviderFact, RemainderOf
<1> QED
    BY <1>7, <1>8, <1>9, <1>10, <1>11, <1>12 DEF PaymentsInv

LEMMA ResolveTransferKeeps ==
    ASSUME PaymentsInv, NEW t \in Transfers, ResolveTransfer(t)
    PROVE  PaymentsInv'
<1>1. UNCHANGED <<status, payment, settlement, refundDue, attempts, fund, lookup, books, pfund, pcancel, ptr, sent>>
    BY DEF ResolveTransfer, row, provider
<1>2. ops \in [Transfers -> OpRows] /\ ops' = [ops EXCEPT ![t].op = "SUCCEEDED"]
    BY DEF PaymentsInv, JournalTypes, ResolveTransfer
<1>3. ops' \in [Transfers -> OpRows] /\ ops'["release"].req = ops["release"].req
    BY <1>2 DEF OpRows, OpStates, Transfers
<1>4. JournalTypes' /\ RowInv' /\ EventsInv' /\ AttemptsInv'
    BY <1>1, <1>3 DEF PaymentsInv, JournalTypes, RowInv, RowTypes, EventsInv, EventOK, FundingFact, AttemptsInv, AttemptInv, Open
<1>5. TransfersInv'
    BY <1>1, <1>3 DEF PaymentsInv, TransfersInv, TransferInv, Drawn, ReleaseAsked, RemainderOf
<1>6. BooksInv' /\ OutcomeIsProviderFact'
    BY <1>1 DEF PaymentsInv, BooksInv, Booked, FundingBook, RefundBook, ReleaseBook, RemainderOf, OutcomeIsProviderFact
<1> QED
    BY <1>4, <1>5, <1>6 DEF PaymentsInv

-----------------------------------------------------------------------------
(* The provider on its own *)

\* The order, its journal and its books; none of it moves when the provider acts.
OrderSide == <<status, payment, settlement, refundDue, attempts, fund, ops, lookup, books>>

LEMMA OrderSideKept ==
    ASSUME PaymentsInv, UNCHANGED OrderSide
    PROVE  RowInv' /\ BooksInv'
BY DEF OrderSide, PaymentsInv, RowInv, RowTypes, BooksInv, Booked, FundingBook, RefundBook, ReleaseBook, RemainderOf

LEMMA FundingMoves ==
    ASSUME PaymentsInv, NEW i \in Attempts, NEW new \in FundStates, UNCHANGED <<OrderSide, pcancel, ptr>>,
           pfund' = [pfund EXCEPT ![i] = new], sent' = sent \cup {Event("funding", i, new)},
           <<pfund[i], new>> \in {<<"REQUIRES_ACTION", "PROCESSING">>, <<"REQUIRES_ACTION", "SUCCEEDED">>,
                                  <<"REQUIRES_ACTION", "FAILED">>, <<"PROCESSING", "SUCCEEDED">>, <<"PROCESSING", "FAILED">>,
                                  <<"CANCELED", "SUCCEEDED">>, <<"SUCCEEDED", "RETURNED">>}
    PROVE  PaymentsInv'
<1>0. pfund \in [Attempts -> FundStates] /\ pfund'[i] = new /\ \A j \in Attempts : j # i => pfund'[j] = pfund[j]
    BY DEF PaymentsInv, JournalTypes
<1>1. JournalTypes'
    BY <1>0 DEF PaymentsInv, JournalTypes, OrderSide
<1>2. FundingsMoveOn
    BY <1>0 DEF FundingsMoveOn
<1>3. EventsInv'
  <2>1. EventOK(Event("funding", i, new))'
      BY <1>0 DEF EventOK, Event, FundingFact, FundFacts, Transfers
  <2> QED
      BY <1>2, <2>1, EventsKept DEF PaymentsInv
<1>4. ASSUME NEW j \in Attempts
      PROVE  AttemptInv(j)'
  <2>1. AttemptInv(j) /\ j \in Int /\ attempts \in Int
      BY PaymentsAssumption DEF PaymentsInv, AttemptsInv, JournalTypes, Attempts
  <2>2. CASE j # i
      BY <1>0, <2>1, <2>2 DEF AttemptInv, FundingFact, Open, OrderSide
  <2>3. CASE j = i
      BY <1>0, <2>1, <2>3 DEF AttemptInv, FundingFact, Open, OrderSide
  <2> QED
      BY <2>2, <2>3
<1>5. TransfersInv'
    BY DEF PaymentsInv, TransfersInv, TransferInv, Drawn, ReleaseAsked, RemainderOf, OrderSide
<1>6. OutcomeIsProviderFact'
  <2>1. \A j \in Attempts : (pfund[j] = "RETURNED" => pfund'[j] = "RETURNED")
                         /\ (pfund[j] \in {"SUCCEEDED", "RETURNED"} => pfund'[j] \in {"SUCCEEDED", "RETURNED"})
      BY <1>0
  <2> QED
      BY <2>1 DEF PaymentsInv, OutcomeIsProviderFact, RemainderOf, OrderSide
<1> QED
    BY <1>1, <1>3, <1>4, <1>5, <1>6, OrderSideKept DEF PaymentsInv, AttemptsInv

LEMMA SettleTransferKeeps ==
    ASSUME PaymentsInv, NEW t \in Transfers, NEW new \in {"SUCCEEDED", "FAILED"}, SettleTransfer(t, new)
    PROVE  PaymentsInv'
<1>0. UNCHANGED <<OrderSide, pcancel, pfund>> /\ ptr' = [ptr EXCEPT ![t].status = new] /\ ptr[t].status = "PENDING"
      /\ sent' = sent \cup {Event(t, 0, new)} /\ ptr \in [Transfers -> TransferRows]
    BY DEF SettleTransfer, ProviderStep, OrderSide, row, journal, PaymentsInv, JournalTypes
<1>1. /\ ptr' \in [Transfers -> TransferRows] /\ ptr'[t].status = new /\ ptr'[t].req = ptr[t].req /\ ptr'[t].applied = ptr[t].applied
      /\ \A u \in Transfers : u # t => ptr'[u] = ptr[u]
    BY <1>0 DEF TransferRows, TransferFacts
<1>2. JournalTypes'
    BY <1>0, <1>1 DEF PaymentsInv, JournalTypes, OrderSide
<1>3. EventsInv'
  <2>1. EventOK(Event(t, 0, new))'
      BY <1>1 DEF EventOK, Event, Transfers, TransferFacts
  <2>2. FundingsMoveOn /\ \A u \in Transfers : ptr[u].status = "SUCCEEDED" => ptr'[u].status = "SUCCEEDED"
      BY <1>0, <1>1 DEF FundingsMoveOn
  <2> QED
      BY <1>0, <2>1, <2>2, EventsKept DEF PaymentsInv
<1>4. AttemptsInv'
    BY <1>0 DEF PaymentsInv, AttemptsInv, AttemptInv, FundingFact, Open, OrderSide
<1>5. TransfersInv'
  <2>1. \A u \in Transfers : TransferInv(u)'
      BY <1>0, <1>1 DEF PaymentsInv, TransfersInv, TransferInv, OrderSide
  <2>2. ASSUME NEW i \in Attempts
        PROVE  (Drawn("refund", i) + Drawn("release", i) <= Amount)'
    <3>1. \A u \in Transfers : Drawn(u, i) \in Nat /\ Drawn(u, i)' \in Nat /\ Drawn(u, i)' <= Drawn(u, i)
        BY <1>0, <1>1, PaymentsAssumption DEF Drawn, TransferRows, Reqs
    <3>2. Drawn("refund", i) + Drawn("release", i) <= Amount /\ Amount \in Nat
        BY PaymentsAssumption DEF PaymentsInv, TransfersInv
    <3> QED
        BY <3>1, <3>2 DEF Transfers
  <2>3. ReleaseAsked(ptr["release"].req)' /\ ReleaseAsked(ops["release"].req)'
    <3>1. ptr'["release"].req = ptr["release"].req
        BY <1>1 DEF Transfers
    <3> QED
        BY <1>0, <3>1 DEF PaymentsInv, TransfersInv, ReleaseAsked, RemainderOf, OrderSide
  <2> QED
      BY <2>1, <2>2, <2>3 DEF TransfersInv
<1>6. OutcomeIsProviderFact'
  <2>1. \A u \in Transfers : ptr[u].status = "SUCCEEDED" => ptr'[u] = ptr[u]
      BY <1>0, <1>1
  <2> QED
      BY <1>0, <2>1 DEF PaymentsInv, OutcomeIsProviderFact, RemainderOf, OrderSide, Transfers
<1> QED
    BY <1>0, <1>2, <1>3, <1>4, <1>5, <1>6, OrderSideKept DEF PaymentsInv

\* Steps that only add true events, or none.
LEMMA EventsGrow ==
    ASSUME PaymentsInv, UNCHANGED <<OrderSide, pfund, pcancel, ptr>>, \A e \in sent' : e \in sent \/ EventOK(e)
    PROVE  PaymentsInv'
<1>1. JournalTypes' /\ AttemptsInv'
    BY DEF PaymentsInv, JournalTypes, AttemptsInv, AttemptInv, FundingFact, Open, OrderSide
<1>2. TransfersInv' /\ OutcomeIsProviderFact'
    BY DEF PaymentsInv, TransfersInv, TransferInv, Drawn, ReleaseAsked, RemainderOf, OutcomeIsProviderFact, OrderSide
<1>3. EventsInv'
  <2>1. FundingsMoveOn
      BY DEF FundingsMoveOn
  <2>2. \A e \in sent' : e \in sent \/ EventOK(e)'
      BY DEF EventOK, FundingFact
  <2> QED
      BY <2>1, <2>2, EventsKept DEF PaymentsInv
<1> QED
    BY <1>1, <1>2, <1>3, OrderSideKept DEF PaymentsInv

LEMMA ProviderKeeps ==
    ASSUME PaymentsInv, Provider
    PROVE  PaymentsInv'
<1>1. ASSUME NEW i \in Attempts, NEW new \in {"PROCESSING", "SUCCEEDED", "FAILED"}, FundingOutcome(i, new)
      PROVE  PaymentsInv'
  <2>1. /\ UNCHANGED <<OrderSide, pcancel, ptr>> /\ pfund' = [pfund EXCEPT ![i] = new]
        /\ sent' = sent \cup {Event("funding", i, new)} /\ new \in FundStates
      BY <1>1 DEF FundingOutcome, ProviderStep, OrderSide, row, journal, FundStates
  <2>2. <<pfund[i], new>> \in {<<"REQUIRES_ACTION", "PROCESSING">>, <<"REQUIRES_ACTION", "SUCCEEDED">>,
                               <<"REQUIRES_ACTION", "FAILED">>, <<"PROCESSING", "SUCCEEDED">>, <<"PROCESSING", "FAILED">>}
      BY <1>1 DEF FundingOutcome, FundingOutcomes
  <2> QED
      BY <2>1, <2>2, FundingMoves
<1>2. ASSUME NEW i \in Attempts, LateCapture(i) \/ BankReturn(i)
      PROVE  PaymentsInv'
    BY <1>2, FundingMoves DEF LateCapture, BankReturn, ProviderStep, OrderSide, row, journal, FundStates
<1>3. ASSUME OpenChargeback \/ \E new \in {"WON", "LOST"} : DecideChargeback(new)
      PROVE  PaymentsInv'
  <2>1. PICK new : sent' = sent \cup {Event("dispute", 0, new)}
      BY <1>3 DEF OpenChargeback, DecideChargeback, ProviderStep
  <2>2. EventOK(Event("dispute", 0, new))
      BY DEF EventOK, Event, Transfers
  <2> QED
      BY <1>3, <2>1, <2>2, EventsGrow DEF OpenChargeback, DecideChargeback, ProviderStep, OrderSide, row, journal
<1> QED
    BY <1>1, <1>2, <1>3, SettleTransferKeeps DEF Provider

\* The reconcile job fetches what the provider shows.
LEMMA FetchKeeps ==
    ASSUME PaymentsInv, (\E i \in Attempts : FetchFunding(i)) \/ \E t \in Transfers : FetchTransfer(t)
    PROVE  PaymentsInv'
<1>1. UNCHANGED <<OrderSide, pfund, pcancel, ptr>>
    BY DEF FetchFunding, FetchTransfer, OrderSide, row, journal, provider
<1>2. ASSUME NEW i \in Attempts, FetchFunding(i)
      PROVE  \A e \in sent' : e \in sent \/ EventOK(e)
  <2>1. EventOK(Fetched("funding", i, pfund[i]))
      BY <1>2 DEF FetchFunding, EventOK, Fetched, FundingFact, FundFacts, Transfers
  <2> QED
      BY <1>2, <2>1 DEF FetchFunding
<1>3. ASSUME NEW t \in Transfers, FetchTransfer(t)
      PROVE  \A e \in sent' : e \in sent \/ EventOK(e)
  <2>1. EventOK(Fetched(t, 0, ptr[t].status))
      BY <1>3 DEF FetchTransfer, EventOK, Fetched, Transfers, TransferFacts
  <2> QED
      BY <1>3, <2>1 DEF FetchTransfer
<1> QED
    BY <1>1, <1>2, <1>3, EventsGrow

-----------------------------------------------------------------------------
(* Events *)

\* The journal takes down what a funding event says; only a success makes a new confirmed funding.
LEMMA FactTaken ==
    ASSUME PaymentsInv, NEW e, EventOK(e), e.kind = "funding", fund' = [fund EXCEPT ![e.id].fact = Fact(@, e.status)],
           UNCHANGED <<refundDue, attempts, ops, lookup, pfund, pcancel, ptr>>,
           status' = "CANCELLED" /\ payment' \in Unpaid => status = "CANCELLED" /\ payment \in Unpaid
    PROVE  /\ fund' \in [Attempts -> FundRows] /\ AttemptsInv'
           /\ {i \in Attempts : fund'[i].fact = "SUCCEEDED"} =
                 {i \in Attempts : fund[i].fact = "SUCCEEDED"} \cup (IF e.status = "SUCCEEDED" THEN {e.id} ELSE {})
<1>0. /\ fund \in [Attempts -> FundRows] /\ e.id \in Attempts /\ e.status \in FundFacts /\ FundingFact(e.id, e.status)
      /\ pfund[e.id] # "NONE" /\ (\A i \in Attempts : AttemptInv(i))
    BY DEF PaymentsInv, JournalTypes, EventOK, AttemptsInv
<1> DEFINE i == e.id
           f == Fact(fund[i].fact, e.status)
<1>1. f \in FundFacts /\ FundingFact(i, f) /\ (f = "SUCCEEDED" <=> fund[i].fact = "SUCCEEDED" \/ e.status = "SUCCEEDED")
    BY <1>0 DEF Fact, FundRows, AttemptInv
<1>2. fund' = [fund EXCEPT ![i].fact = f]
    OBVIOUS
<1> HIDE DEF f, i
<1>3. i \in Attempts /\ i = e.id
    BY <1>0 DEF i
<1>4. /\ fund' \in [Attempts -> FundRows] /\ fund'[i].fact = f /\ fund'[i].op = fund[i].op
      /\ \A j \in Attempts : j # i => fund'[j] = fund[j]
    BY <1>0, <1>1, <1>2, <1>3 DEF FundRows
<1>5. ASSUME NEW j \in Attempts
      PROVE  AttemptInv(j)'
  <2>1. AttemptInv(j)
      BY <1>0
  <2>2. CASE j # i
      BY <1>4, <2>1, <2>2 DEF AttemptInv, FundingFact, Open
  <2>3. CASE j = i
    <3>1. FundingFact(j, fund'[j].fact)
        BY <1>1, <1>4, <2>3
    <3>2. FundingFact(j, fund[j].fact)'
        BY <3>1 DEF FundingFact
    <3> QED
        BY <1>0, <1>3, <1>4, <2>1, <2>3, <3>2 DEF AttemptInv, Open
  <2> QED
      BY <2>2, <2>3
<1> QED
    BY <1>1, <1>3, <1>4, <1>5 DEF AttemptsInv

\* A booking adds one row to the accounts of its kind.
LEMMA Booking ==
    ASSUME PaymentsInv, NEW kind \in BookKinds, NEW id \in Nat, NEW amount \in 0..Amount, Book(kind, id, amount)
    PROVE  /\ books' \in SUBSET BookRows /\ IsFiniteSet(books')
           /\ \A kinds : Booked(kinds)' = Booked(kinds) \cup
                    (IF kind \in kinds THEN {[kind |-> kind, id |-> id, amount |-> amount]} ELSE {})
<1> DEFINE k == [kind |-> kind, id |-> id, amount |-> amount]
<1>1. books' = books \cup {k} /\ books \in SUBSET BookRows /\ IsFiniteSet(books) /\ k \in BookRows /\ k.kind = kind
    BY DEF Book, PaymentsInv, JournalTypes, BookRows
<1>2. IsFiniteSet(books')
    BY <1>1, FS_AddElement
<1> HIDE DEF k
<1>3. \A kinds : {b \in books' : b.kind \in kinds} = {b \in books : b.kind \in kinds} \cup (IF kind \in kinds THEN {k} ELSE {})
    BY <1>1
<1> QED
    BY <1>1, <1>2, <1>3 DEF Booked, k

\* What an event does not touch.
Unmoved == <<refundDue, attempts, lookup, pfund, pcancel, ptr, sent>>

LEMMA EventsSame ==
    ASSUME PaymentsInv, UNCHANGED Unmoved
    PROVE  EventsInv'
BY DEF PaymentsInv, EventsInv, EventOK, FundingFact, Unmoved

\* An event that books nothing and leaves the row alone, but for the progress of an unpaid order.
LEMMA QuietKeeps ==
    ASSUME PaymentsInv, UNCHANGED <<Unmoved, status, settlement, ops, books>>, FactsKept, AttemptsInv', fund' \in [Attempts -> FundRows],
           payment' = payment \/ (status = "AWAITING_PAYMENT" /\ payment' \in Unpaid)
    PROVE  PaymentsInv'
<1>1. JournalTypes' /\ RowInv'
    BY DEF PaymentsInv, JournalTypes, RowInv, RowTypes, Unmoved, Unpaid
<1>2. TransfersInv'
    BY DEF PaymentsInv, TransfersInv, TransferInv, Drawn, ReleaseAsked, RemainderOf, FactsKept, Unmoved
<1>3. BooksInv'
  <2>1. \A kinds : Booked(kinds)' = Booked(kinds)
      BY DEF Booked
  <2>2. {FundingBook(i) : i \in {j \in Attempts : fund[j].fact = "SUCCEEDED"}}'
        = {FundingBook(i) : i \in {j \in Attempts : fund[j].fact = "SUCCEEDED"}}
      BY DEF FactsKept, FundingBook
  <2> QED
      BY <2>1, <2>2 DEF PaymentsInv, BooksInv, RefundBook, ReleaseBook, RemainderOf, RowInv, Unpaid, Unmoved
<1>4. OutcomeIsProviderFact'
    BY DEF PaymentsInv, OutcomeIsProviderFact, RemainderOf, Unmoved, Unpaid, RowInv
<1> QED
    BY <1>1, <1>2, <1>3, <1>4, EventsSame DEF PaymentsInv

\* funding.succeeded: booked once, it funds the order whose hold is open or becomes a late case.
LEMMA FundingSucceededKeeps ==
    ASSUME PaymentsInv, NEW e, EventOK(e), e.kind = "funding", e.status = "SUCCEEDED",
           fund' = [fund EXCEPT ![e.id].fact = Fact(@, e.status)], FundingSucceeded(e.id), UNCHANGED <<Unmoved, ops>>
    PROVE  PaymentsInv'
<1>0. /\ e.id \in Attempts /\ pfund[e.id] \in {"SUCCEEDED", "RETURNED"} /\ Amount \in Nat \ {0}
      /\ JournalTypes /\ RowInv /\ TransfersInv /\ BooksInv /\ OutcomeIsProviderFact
    BY PaymentsAssumption DEF EventOK, FundingFact, PaymentsInv
<1>1. PICK i \in Attempts : i = e.id
    BY <1>0
<1>2. \/ UNCHANGED <<status, payment, settlement>>
      \/ /\ status = "AWAITING_PAYMENT" /\ status' = "FUNDED" /\ payment' = "SUCCEEDED" /\ settlement' = settlement
         /\ ~FundingBooked(i) /\ Book("funding", i, Amount)
    BY <1>1 DEF FundingSucceeded, KeepRow
<1>3. /\ fund' \in [Attempts -> FundRows] /\ AttemptsInv'
      /\ {j \in Attempts : fund'[j].fact = "SUCCEEDED"} = {j \in Attempts : fund[j].fact = "SUCCEEDED"} \cup {i}
    BY <1>1, <1>2, FactTaken DEF Unmoved, Unpaid
<1>4. FundingBooked(i) <=> fund[i].fact = "SUCCEEDED"
  <2>1. FundingBooked(i) <=> \E k \in Booked({"funding"}) : k.id = i
      BY DEF FundingBooked, Booked
  <2>2. Booked({"funding"}) = {FundingBook(j) : j \in {j \in Attempts : fund[j].fact = "SUCCEEDED"}}
      BY <1>0 DEF BooksInv
  <2>3. \A j \in Attempts : FundingBook(j).id = j
      BY DEF FundingBook
  <2> QED
      BY <2>1, <2>2, <2>3
<1>5. CASE FundingBooked(i)
  <2>1. FactsKept
      BY <1>3, <1>4, <1>5 DEF FactsKept
  <2>2. UNCHANGED <<status, payment, settlement, books>>
      BY <1>1, <1>5 DEF FundingSucceeded, KeepRow
  <2> QED
      BY <1>3, <2>1, <2>2, QuietKeeps
<1>6. CASE ~FundingBooked(i)
  <2>1. Book("funding", i, Amount) /\ i \in Nat /\ Amount \in 0..Amount /\ "funding" \in BookKinds
      BY <1>0, <1>1, <1>6 DEF FundingSucceeded, Attempts, BookKinds
  <2>2. /\ books' \in SUBSET BookRows /\ IsFiniteSet(books')
        /\ \A kinds : Booked(kinds)' = Booked(kinds) \cup (IF "funding" \in kinds THEN {FundingBook(i)} ELSE {})
      BY <2>1, Booking DEF FundingBook
  <2>3. JournalTypes' /\ RowInv'
      BY <1>0, <1>2, <1>3, <2>2 DEF JournalTypes, RowInv, RowTypes, Unmoved, Unpaid
  <2>4. \A j \in Attempts : fund[j].fact = "SUCCEEDED" => fund'[j].fact = "SUCCEEDED"
      BY <1>3
  <2>5. TransfersInv'
    <3>1. \A t \in Transfers : TransferInv(t)'
        BY <1>0, <2>4 DEF TransfersInv, TransferInv, Unmoved
    <3>2. \A j \in Attempts : (Drawn("refund", j) + Drawn("release", j) <= Amount)'
        BY <1>0 DEF TransfersInv, Drawn, Unmoved
    <3>3. ReleaseAsked(ptr["release"].req)' /\ ReleaseAsked(ops["release"].req)'
        BY <1>0, <1>2 DEF TransfersInv, ReleaseAsked, RemainderOf, Unmoved
    <3> QED
        BY <3>1, <3>2, <3>3 DEF TransfersInv
  <2>6. BooksInv'
    <3>1. Booked({"funding"})' = {FundingBook(j) : j \in {j \in Attempts : fund'[j].fact = "SUCCEEDED"}}
      <4>1. Booked({"funding"})' = Booked({"funding"}) \cup {FundingBook(i)}
          BY <2>2
      <4> QED
          BY <1>0, <1>3, <4>1 DEF BooksInv
    <3>2. Booked({"refund"})' = Booked({"refund"}) /\ Booked({"release"})' = Booked({"release"})
          /\ Booked({"bank-return", "bank-loss"})' = Booked({"bank-return", "bank-loss"})
        BY <2>2
    <3>3. Booked({"refund"})' = IF payment' \in {"REFUNDED", "PARTIALLY_REFUNDED"} THEN {RefundBook'} ELSE {}
        BY <1>0, <1>2, <3>2 DEF BooksInv, RefundBook, RowInv, Unpaid, Unmoved
    <3>4. Booked({"release"})' = IF settlement' = "RELEASED" THEN {ReleaseBook'} ELSE {}
        BY <1>0, <1>2, <3>2 DEF BooksInv, ReleaseBook, RemainderOf, Unmoved
    <3>5. payment' = "RETURNED" => Booked({"bank-return", "bank-loss"})' # {}
        BY <1>0, <1>2, <3>2 DEF BooksInv
    <3> QED
        BY <3>1, <3>3, <3>4, <3>5 DEF BooksInv, FundingBook
  <2>7. OutcomeIsProviderFact'
      BY <1>0, <1>2 DEF OutcomeIsProviderFact, RemainderOf, Unmoved
  <2> QED
      BY <1>3, <2>3, <2>5, <2>6, <2>7, EventsSame DEF PaymentsInv
<1> QED
    BY <1>5, <1>6

\* funding.returned: the payment is RETURNED and the return booked, or nothing changes.
LEMMA FundingReturnedKeeps ==
    ASSUME PaymentsInv, NEW e, EventOK(e), e.kind = "funding", e.status = "RETURNED",
           fund' = [fund EXCEPT ![e.id].fact = Fact(@, e.status)], FundingReturned(e.id), UNCHANGED <<Unmoved, ops>>
    PROVE  PaymentsInv'
<1>0. /\ e.id \in Attempts /\ pfund[e.id] = "RETURNED" /\ Amount \in Nat \ {0}
      /\ JournalTypes /\ RowInv /\ TransfersInv /\ BooksInv /\ OutcomeIsProviderFact
    BY PaymentsAssumption DEF EventOK, FundingFact, PaymentsInv
<1>1. PICK i \in Attempts : i = e.id
    BY <1>0
<1>2. CASE UNCHANGED <<status, payment, settlement, books>>
  <2>1. fund' \in [Attempts -> FundRows] /\ AttemptsInv' /\ FactsKept
      BY <1>2, FactTaken DEF Unmoved, FactsKept
  <2> QED
      BY <1>2, <2>1, QuietKeeps
<1>3. CASE /\ payment \in {"SUCCEEDED", "REFUND_PENDING"} /\ payment' = "RETURNED"
           /\ \/ status = "FUNDED" /\ status' = "CANCELLED" /\ settlement' = "NOT_READY"
              \/ status # "FUNDED" /\ status' = status /\ settlement' = settlement
           /\ \E kind \in {"bank-return", "bank-loss"} : Book(kind, i, Amount)
  <2>1. /\ fund' \in [Attempts -> FundRows] /\ AttemptsInv'
        /\ {j \in Attempts : fund'[j].fact = "SUCCEEDED"} = {j \in Attempts : fund[j].fact = "SUCCEEDED"}
      BY <1>3, FactTaken DEF Unmoved, Unpaid
  <2>2. PICK kind \in {"bank-return", "bank-loss"} : Book(kind, i, Amount)
      BY <1>3
  <2> DEFINE k == [kind |-> kind, id |-> i, amount |-> Amount]
  <2>3. /\ books' \in SUBSET BookRows /\ IsFiniteSet(books')
        /\ \A kinds : Booked(kinds)' = Booked(kinds) \cup (IF kind \in kinds THEN {k} ELSE {})
    <3>1. kind \in BookKinds /\ i \in Nat /\ Amount \in 0..Amount
        BY <1>0 DEF BookKinds, Attempts
    <3> QED
        BY <2>2, <3>1, Booking
  <2> HIDE DEF k
  <2>4. JournalTypes'
      BY <1>0, <2>1, <2>3 DEF JournalTypes, Unmoved
  <2>5. RowInv'
      BY <1>0, <1>3 DEF RowInv, RowTypes, Unmoved, Unpaid
  <2>6. TransfersInv'
    <3>1. \A t \in Transfers : TransferInv(t)'
        BY <1>0, <2>1 DEF TransfersInv, TransferInv, Unmoved
    <3>2. \A j \in Attempts : (Drawn("refund", j) + Drawn("release", j) <= Amount)'
        BY <1>0 DEF TransfersInv, Drawn, Unmoved
    <3>3. ReleaseAsked(ptr["release"].req)' /\ ReleaseAsked(ops["release"].req)'
        BY <1>0, <1>3 DEF TransfersInv, ReleaseAsked, RemainderOf, Unmoved, RowInv
    <3> QED
        BY <3>1, <3>2, <3>3 DEF TransfersInv
  <2>7. BooksInv'
    <3>1. Booked({"funding"})' = Booked({"funding"}) /\ Booked({"refund"})' = Booked({"refund"})
          /\ Booked({"release"})' = Booked({"release"})
        BY <2>3
    <3>2. Booked({"bank-return", "bank-loss"})' # {}
        BY <2>3
    <3>3. Booked({"funding"})' = {FundingBook(j) : j \in {j \in Attempts : fund'[j].fact = "SUCCEEDED"}}
        BY <1>0, <2>1, <3>1 DEF BooksInv
    <3>4. Booked({"refund"})' = IF payment' \in {"REFUNDED", "PARTIALLY_REFUNDED"} THEN {RefundBook'} ELSE {}
        BY <1>0, <1>3, <3>1 DEF BooksInv
    <3>5. Booked({"release"})' = IF settlement' = "RELEASED" THEN {ReleaseBook'} ELSE {}
        BY <1>0, <1>3, <3>1 DEF BooksInv, ReleaseBook, RemainderOf, Unmoved, RowInv
    <3> QED
        BY <3>2, <3>3, <3>4, <3>5 DEF BooksInv, FundingBook
  <2>8. OutcomeIsProviderFact'
    <3>1. pfund'[i] = "RETURNED" /\ ptr' = ptr /\ refundDue' = refundDue
        BY <1>0, <1>1 DEF Unmoved
    <3>2. settlement' = "RELEASED" => settlement = "RELEASED" /\ status' = status
        BY <1>3
    <3> QED
        BY <1>0, <1>3, <3>1, <3>2 DEF OutcomeIsProviderFact, RemainderOf
  <2> QED
      BY <2>1, <2>4, <2>5, <2>6, <2>7, <2>8, EventsSame DEF PaymentsInv
<1> QED
    BY <1>1, <1>2, <1>3 DEF FundingReturned, KeepRow

\* The journal of a transfer takes down what its event says.
LEMMA TransferFactTaken ==
    ASSUME PaymentsInv, NEW t \in Transfers, NEW e, EventOK(e), e.kind = t,
           ops' = [ops EXCEPT ![t].fact = Fact(@, e.status)]
    PROVE  ops' \in [Transfers -> OpRows] /\ \A u \in Transfers : ops'[u].req = ops[u].req
<1>1. ops \in [Transfers -> OpRows] /\ e.status \in TransferFacts
    BY DEF PaymentsInv, JournalTypes, EventOK
<1>2. Fact(ops[t].fact, e.status) \in TransferFacts
    BY <1>1 DEF Fact, OpRows
<1> QED
    BY <1>1, <1>2 DEF OpRows

\* A transfer's event that books nothing: only the settlement of a release may move, to pending or failed.
LEMMA TransferQuiet ==
    ASSUME PaymentsInv, UNCHANGED <<Unmoved, status, payment, fund, books>>, ops' \in [Transfers -> OpRows],
           \A u \in Transfers : ops'[u].req = ops[u].req,
           settlement' = settlement \/ (settlement \in {"READY", "PENDING"} /\ settlement' \in {"PENDING", "FAILED"})
    PROVE  PaymentsInv'
<1>0. JournalTypes /\ RowInv /\ AttemptsInv /\ TransfersInv /\ BooksInv /\ OutcomeIsProviderFact
    BY DEF PaymentsInv
<1>1. JournalTypes' /\ RowInv' /\ AttemptsInv'
    BY <1>0 DEF JournalTypes, RowInv, RowTypes, AttemptsInv, AttemptInv, FundingFact, Open, Unmoved
<1>2. TransfersInv'
    BY <1>0 DEF TransfersInv, TransferInv, Drawn, ReleaseAsked, RemainderOf, Unmoved, Transfers
<1>3. BooksInv'
    BY <1>0 DEF BooksInv, Booked, FundingBook, RefundBook, ReleaseBook, RemainderOf, Unmoved
<1>4. OutcomeIsProviderFact'
    BY <1>0 DEF OutcomeIsProviderFact, RemainderOf, Unmoved
<1> QED
    BY <1>1, <1>2, <1>3, <1>4, EventsSame DEF PaymentsInv

\* refund.succeeded
LEMMA RefundSucceededKeeps ==
    ASSUME PaymentsInv, NEW e, EventOK(e), e.kind = "refund", e.status = "SUCCEEDED",
           ops' = [ops EXCEPT !["refund"].fact = Fact(@, e.status)], RefundSucceeded, UNCHANGED <<Unmoved, fund>>
    PROVE  PaymentsInv'
<1>0. /\ ptr["refund"].status = "SUCCEEDED" /\ Amount \in Nat \ {0}
      /\ JournalTypes /\ RowInv /\ AttemptsInv /\ TransfersInv /\ BooksInv /\ OutcomeIsProviderFact
    BY PaymentsAssumption DEF EventOK, PaymentsInv, Transfers
<1>1. ops' \in [Transfers -> OpRows] /\ \A u \in Transfers : ops'[u].req = ops[u].req
    BY TransferFactTaken DEF Transfers
<1>2. CASE UNCHANGED <<status, payment, settlement, books>>
    BY <1>1, <1>2, TransferQuiet
<1>3. CASE /\ payment = "REFUND_PENDING" /\ ptr["refund"].req.amount = RefundAmount(refundDue)
           /\ Book("refund", 0, RefundAmount(refundDue))
           /\ \/ /\ RefundAmount(refundDue) = Amount
                 /\ status' = "REFUNDED" /\ payment' = "REFUNDED" /\ settlement' = "NOT_READY"
              \/ /\ RefundAmount(refundDue) # Amount
                 /\ payment' = "PARTIALLY_REFUNDED" /\ UNCHANGED <<status, settlement>>
  <2>1. status = "CANCELLED" /\ RefundAmount(refundDue) \in 0..Amount
        /\ (RefundAmount(refundDue) = Amount <=> refundDue \in {NoAmount, Amount})
      BY <1>0, <1>3 DEF RowInv, RowTypes, RefundAmount, NoAmount, Unpaid
  <2>2. /\ books' \in SUBSET BookRows /\ IsFiniteSet(books')
        /\ \A kinds : Booked(kinds)' = Booked(kinds) \cup (IF "refund" \in kinds THEN {RefundBook} ELSE {})
      BY <1>3, <2>1, Booking DEF BookKinds, RefundBook
  <2>3. JournalTypes'
      BY <1>0, <1>1, <2>2 DEF JournalTypes, Unmoved
  <2>4. RowInv'
      BY <1>0, <1>3, <2>1 DEF RowInv, RowTypes, Unmoved, Unpaid
  <2>5. AttemptsInv'
      BY <1>0, <1>3 DEF AttemptsInv, AttemptInv, FundingFact, Open, Unmoved, Unpaid
  <2>6. TransfersInv'
    <3>1. \A t \in Transfers : TransferInv(t)'
        BY <1>0 DEF TransfersInv, TransferInv, Unmoved
    <3>2. \A j \in Attempts : (Drawn("refund", j) + Drawn("release", j) <= Amount)'
        BY <1>0 DEF TransfersInv, Drawn, Unmoved
    <3>3. ReleaseAsked(ptr["release"].req)' /\ ReleaseAsked(ops["release"].req)'
        BY <1>0, <1>1, <1>3, <2>1 DEF TransfersInv, ReleaseAsked, RemainderOf, Unmoved, RowInv, Transfers
    <3> QED
        BY <3>1, <3>2, <3>3 DEF TransfersInv
  <2>7. BooksInv'
    <3>1. Booked({"funding"})' = Booked({"funding"}) /\ Booked({"refund"})' = Booked({"refund"}) \cup {RefundBook}
          /\ Booked({"release"})' = Booked({"release"})
        BY <2>2
    <3>2. Booked({"funding"})' = {FundingBook(j) : j \in {j \in Attempts : fund'[j].fact = "SUCCEEDED"}}
        BY <1>0, <3>1 DEF BooksInv, Unmoved
    <3>3. Booked({"refund"})' = IF payment' \in {"REFUNDED", "PARTIALLY_REFUNDED"} THEN {RefundBook'} ELSE {}
        BY <1>0, <1>3, <3>1 DEF BooksInv, RefundBook, Unmoved
    <3>4. Booked({"release"})' = IF settlement' = "RELEASED" THEN {ReleaseBook'} ELSE {}
        BY <1>0, <1>3, <2>1, <3>1 DEF BooksInv, ReleaseBook, RemainderOf, Unmoved, RowInv
    <3> QED
        BY <1>3, <3>2, <3>3, <3>4 DEF BooksInv, FundingBook
  <2>8. OutcomeIsProviderFact'
      BY <1>0, <1>3, <2>1 DEF OutcomeIsProviderFact, RemainderOf, Unmoved, RowInv
  <2> QED
      BY <2>3, <2>4, <2>5, <2>6, <2>7, <2>8, EventsSame DEF PaymentsInv
<1> QED
    BY <1>2, <1>3 DEF RefundSucceeded, KeepRow

\* release.succeeded
LEMMA ReleaseSucceededKeeps ==
    ASSUME PaymentsInv, NEW e, EventOK(e), e.kind = "release", e.status = "SUCCEEDED",
           ops' = [ops EXCEPT !["release"].fact = Fact(@, e.status)], ReleaseSucceeded, UNCHANGED <<Unmoved, fund>>
    PROVE  PaymentsInv'
<1>0. /\ ptr["release"].status = "SUCCEEDED" /\ Amount \in Nat \ {0}
      /\ JournalTypes /\ RowInv /\ AttemptsInv /\ TransfersInv /\ BooksInv /\ OutcomeIsProviderFact
    BY PaymentsAssumption DEF EventOK, PaymentsInv, Transfers
<1>1. ops' \in [Transfers -> OpRows] /\ \A u \in Transfers : ops'[u].req = ops[u].req
    BY TransferFactTaken DEF Transfers
<1>2. CASE UNCHANGED <<status, payment, settlement, books>>
    BY <1>1, <1>2, TransferQuiet
<1>3. CASE /\ settlement \in {"READY", "PENDING"} /\ ptr["release"].req.amount = ops["release"].req.amount
           /\ settlement' = "RELEASED" /\ payment' = payment
           /\ status' = IF status = "APPROVED" THEN "COMPLETED" ELSE status
           /\ Book("release", 0, ops["release"].req.amount)
  <2>1. ptr["release"].req.amount = RemainderOf(refundDue)
    <3>1. ptr["release"].req.fund \in Attempts
        BY <1>0 DEF TransfersInv, TransferInv, Transfers
    <3>2. ptr["release"].req # NoReq
        BY <3>1, PaymentsAssumption DEF NoReq, Attempts
    <3> QED
        BY <1>0, <3>2 DEF TransfersInv, ReleaseAsked
  <2>2. RemainderOf(refundDue)' = RemainderOf(refundDue) /\ RemainderOf(refundDue) \in 0..Amount
      BY <1>0, <1>3 DEF RemainderOf, Unmoved, RowInv, RowTypes, NoAmount
  <2>3. /\ books' \in SUBSET BookRows /\ IsFiniteSet(books')
        /\ \A kinds : Booked(kinds)' = Booked(kinds) \cup (IF "release" \in kinds THEN {ReleaseBook} ELSE {})
      BY <1>3, <2>1, <2>2, Booking DEF BookKinds, ReleaseBook
  <2>4. JournalTypes'
      BY <1>0, <1>1, <2>3 DEF JournalTypes, Unmoved
  <2>5. RowInv'
      BY <1>0, <1>3 DEF RowInv, RowTypes, Unmoved, Unpaid
  <2>6. AttemptsInv'
      BY <1>0, <1>3 DEF AttemptsInv, AttemptInv, FundingFact, Open, Unmoved, RowInv
  <2>7. TransfersInv'
    <3>1. \A t \in Transfers : TransferInv(t)'
        BY <1>0 DEF TransfersInv, TransferInv, Unmoved
    <3>2. \A j \in Attempts : (Drawn("refund", j) + Drawn("release", j) <= Amount)'
        BY <1>0 DEF TransfersInv, Drawn, Unmoved
    <3>3. ReleaseAsked(ptr["release"].req)' /\ ReleaseAsked(ops["release"].req)'
        BY <1>0, <1>1, <1>3, <2>2 DEF TransfersInv, ReleaseAsked, Unmoved, Transfers
    <3> QED
        BY <3>1, <3>2, <3>3 DEF TransfersInv
  <2>8. BooksInv'
    <3>1. Booked({"funding"})' = Booked({"funding"}) /\ Booked({"release"})' = Booked({"release"}) \cup {ReleaseBook}
          /\ Booked({"refund"})' = Booked({"refund"})
          /\ Booked({"bank-return", "bank-loss"})' = Booked({"bank-return", "bank-loss"})
        BY <2>3
    <3>2. Booked({"funding"})' = {FundingBook(j) : j \in {j \in Attempts : fund'[j].fact = "SUCCEEDED"}}
        BY <1>0, <3>1 DEF BooksInv
    <3>3. Booked({"refund"})' = IF payment' \in {"REFUNDED", "PARTIALLY_REFUNDED"} THEN {RefundBook'} ELSE {}
        BY <1>0, <1>3, <3>1 DEF BooksInv, RefundBook, Unmoved
    <3>4. Booked({"release"})' = IF settlement' = "RELEASED" THEN {ReleaseBook'} ELSE {}
        BY <1>0, <1>3, <2>2, <3>1 DEF BooksInv, ReleaseBook
    <3>5. payment' = "RETURNED" => Booked({"bank-return", "bank-loss"})' # {}
        BY <1>0, <1>3, <3>1 DEF BooksInv
    <3> QED
        BY <3>2, <3>3, <3>4, <3>5 DEF BooksInv, FundingBook
  <2>9. OutcomeIsProviderFact'
      BY <1>0, <1>3, <2>1, <2>2 DEF OutcomeIsProviderFact, Unmoved
  <2> QED
      BY <2>4, <2>5, <2>6, <2>7, <2>8, <2>9, EventsSame DEF PaymentsInv
<1> QED
    BY <1>2, <1>3 DEF ReleaseSucceeded, KeepRow

\* processVerifiedEvent, and an event that is lost.
LEMMA DeliveryKeeps ==
    ASSUME PaymentsInv, Delivery
    PROVE  PaymentsInv'
<1>1. PICK e \in sent : ProcessEvent(e) \/ LoseEvent(e)
    BY DEF Delivery
<1>2. EventOK(e)
    BY DEF PaymentsInv, EventsInv
<1>3. CASE LoseEvent(e)
    BY <1>3, EventsGrow DEF LoseEvent, OrderSide, row, journal, provider
<1>4. CASE ProcessEvent(e)
  <2>0. UNCHANGED Unmoved
      BY <1>4 DEF ProcessEvent, Unmoved, provider
  <2>1. CASE e.kind = "funding" /\ ApplyFundingEvent(e)
    <3>0. fund' = [fund EXCEPT ![e.id].fact = Fact(@, e.status)] /\ UNCHANGED ops
        BY <2>1 DEF ApplyFundingEvent
    <3>1. CASE e.status = "SUCCEEDED"
        BY <1>2, <2>0, <2>1, <3>0, <3>1, FundingSucceededKeeps DEF ApplyFundingEvent
    <3>2. CASE e.status = "RETURNED"
        BY <1>2, <2>0, <2>1, <3>0, <3>2, FundingReturnedKeeps DEF ApplyFundingEvent
    <3>3. CASE e.status \notin {"SUCCEEDED", "RETURNED"}
      <4>1. FundingProgress(e.id, e.status)
          BY <2>1, <3>3 DEF ApplyFundingEvent
      <4>2. /\ UNCHANGED <<status, settlement, books>>
            /\ payment' = payment \/ (status = "AWAITING_PAYMENT" /\ payment' \in Unpaid)
          BY <4>1 DEF FundingProgress, Unpaid
      <4>3. /\ fund' \in [Attempts -> FundRows] /\ AttemptsInv'
            /\ {i \in Attempts : fund'[i].fact = "SUCCEEDED"} = {i \in Attempts : fund[i].fact = "SUCCEEDED"}
          BY <1>2, <2>0, <2>1, <3>0, <3>3, <4>2, FactTaken DEF Unmoved
      <4>4. FactsKept
          BY <4>3 DEF FactsKept
      <4> QED
          BY <2>0, <3>0, <4>2, <4>3, <4>4, QuietKeeps
    <3> QED
        BY <3>1, <3>2, <3>3
  <2>2. CASE e.kind = "refund" /\ ApplyRefundEvent(e)
    <3>1. ops' \in [Transfers -> OpRows] /\ \A u \in Transfers : ops'[u].req = ops[u].req
        BY <1>2, <2>2, TransferFactTaken DEF ApplyRefundEvent, Transfers
    <3>2. CASE e.status = "SUCCEEDED"
        BY <1>2, <2>0, <2>2, <3>2, RefundSucceededKeeps DEF ApplyRefundEvent
    <3>3. CASE e.status # "SUCCEEDED"
        BY <2>0, <2>2, <3>1, <3>3, TransferQuiet DEF ApplyRefundEvent, KeepRow
    <3> QED
        BY <3>2, <3>3
  <2>3. CASE e.kind = "release" /\ ApplyReleaseEvent(e)
    <3>1. ops' \in [Transfers -> OpRows] /\ \A u \in Transfers : ops'[u].req = ops[u].req
        BY <1>2, <2>3, TransferFactTaken DEF ApplyReleaseEvent, Transfers
    <3>2. CASE e.status = "SUCCEEDED"
        BY <1>2, <2>0, <2>3, <3>2, ReleaseSucceededKeeps DEF ApplyReleaseEvent
    <3>3. CASE e.status # "SUCCEEDED"
        BY <2>0, <2>3, <3>1, <3>3, TransferQuiet DEF ApplyReleaseEvent, ReleaseOther
    <3> QED
        BY <3>2, <3>3
  <2>4. CASE e.kind = "dispute" /\ ApplyDisputeEvent(e)
    <3>1. ops \in [Transfers -> OpRows] /\ UNCHANGED <<status, payment, settlement, fund, books, ops>>
        BY <2>4 DEF ApplyDisputeEvent, KeepRow, PaymentsInv, JournalTypes
    <3> QED
        BY <2>0, <3>1, TransferQuiet
  <2> QED
      BY <1>4, <2>1, <2>2, <2>3, <2>4 DEF ProcessEvent
<1> QED
    BY <1>1, <1>3, <1>4

-----------------------------------------------------------------------------
(* The theorems *)

LEMMA PaymentsInitHolds == Init => PaymentsInv
<1> SUFFICES ASSUME Init PROVE PaymentsInv
    OBVIOUS
<1>0. Amount \in Nat \ {0} /\ MaxAttempts \in Nat \ {0} /\ Attempts \subseteq 0..MaxAttempts
    BY PaymentsAssumption DEF Attempts
<1>1. NoFund \in FundRows /\ NoReq \in Reqs /\ NoLookup \in [fund : 0..MaxAttempts, applied : BOOLEAN]
    BY <1>0 DEF NoFund, FundRows, OpStates, FundFacts, Methods, NoReq, Reqs, Reasons, NoLookup
<1>2. NoOp \in OpRows /\ NoTransfer \in TransferRows
    BY <1>1 DEF NoOp, OpRows, OpStates, TransferFacts, NoTransfer, TransferRows
<1>3. JournalTypes
    BY <1>0, <1>1, <1>2, FS_EmptySet DEF Init, JournalTypes, FundStates
<1>4. RowInv
    BY DEF Init, RowInv, RowTypes, Unpaid, NoAmount
<1>5. EventsInv /\ OutcomeIsProviderFact
    BY DEF Init, EventsInv, OutcomeIsProviderFact
<1>6. AttemptsInv
  <2> SUFFICES ASSUME NEW i \in Attempts PROVE AttemptInv(i)
      BY DEF AttemptsInv
  <2>1. fund[i] = NoFund /\ pfund[i] = "NONE" /\ pcancel[i] = FALSE /\ attempts = 0 /\ i >= 1 /\ status = "AWAITING_PAYMENT"
      BY <1>0 DEF Init, Attempts
  <2>2. NoFund.fact = "NONE"
      BY DEF NoFund
  <2> QED
      BY <1>0, <2>1, <2>2 DEF AttemptInv, FundingFact, Open, Attempts
<1>7. TransfersInv
  <2>1. \A t \in Transfers : ptr[t] = NoTransfer /\ ops[t] = NoOp
      BY DEF Init
  <2>2. NoTransfer.applied = FALSE /\ NoTransfer.status = "NONE" /\ NoTransfer.req = NoReq /\ NoOp.req = NoReq
      BY DEF NoTransfer, NoOp
  <2> QED
      BY <1>0, <2>1, <2>2 DEF TransfersInv, TransferInv, Drawn, ReleaseAsked, Transfers
<1>8. BooksInv
  <2>1. \A i \in Attempts : fund[i].fact # "SUCCEEDED"
      BY DEF Init, NoFund
  <2>2. \A kinds : Booked(kinds) = {}
      BY DEF Init, Booked
  <2>3. payment = "PENDING" /\ settlement = "NOT_READY"
      BY DEF Init
  <2> QED
      BY <2>1, <2>2, <2>3 DEF BooksInv
<1> QED
    BY <1>3, <1>4, <1>5, <1>6, <1>7, <1>8 DEF PaymentsInv

LEMMA PaymentsNextKeeps == PaymentsInv /\ [Next]_vars => PaymentsInv'
<1> SUFFICES ASSUME PaymentsInv, [Next]_vars
             PROVE  PaymentsInv'
    OBVIOUS
<1>1. CASE Commands
    BY <1>1, EnsureKeeps, SwitchKeeps, CancelUnpaidKeeps, CommandKeeps DEF Commands
<1>2. CASE Jobs
  <2>1. CASE ExpireHold
      BY <2>1, CancelUnpaidKeeps
  <2>2. CASE ReleaseReadySettlements \/ RetryPendingRelease
      BY <2>2, ReleaseKeeps DEF ReleaseReadySettlements, ReleaseReady, RetryPendingRelease
  <2>3. CASE ResolveFunding \/ \E i \in Attempts : LookupFunding(i)
      BY <2>3, LookupKeeps
  <2>4. CASE (\E i \in Attempts : FetchFunding(i)) \/ \E t \in Transfers : FetchTransfer(t)
      BY <2>4, FetchKeeps
  <2>5. CASE RetryPendingRefund
      BY <2>5, CommandKeeps
  <2>6. CASE \E t \in Transfers : ResolveTransfer(t)
      BY <2>6, ResolveTransferKeeps
  <2> QED
      BY <1>2, <2>1, <2>2, <2>3, <2>4, <2>5, <2>6 DEF Jobs, Reconcile
<1>3. CASE Provider
    BY <1>3, ProviderKeeps
<1>4. CASE Delivery
    BY <1>4, DeliveryKeeps
<1>5. CASE UNCHANGED vars
    BY <1>5, EventsGrow DEF vars, row, journal, provider, OrderSide
<1> QED
    BY <1>1, <1>2, <1>3, <1>4, <1>5 DEF Next

\* The inductive invariant of the rail: row, journal, provider, events and books as they are at every moment.
THEOREM PaymentsInvariance == Spec => []PaymentsInv
<1>1. Init => PaymentsInv
    BY PaymentsInitHolds
<1>2. PaymentsInv /\ [Next]_vars => PaymentsInv'
    BY PaymentsNextKeeps
<1> QED
    BY <1>1, <1>2, PTL DEF Spec

\* funding.ts, processVerifiedEvent: with any number of attempts, faults and events in flight, lost, late, repeated or
\* fetched, the row never claims a payment, refund or release that the provider does not show in that amount.
THEOREM RowShowsProviderFacts == Spec => []OutcomeIsProviderFact
<1>1. PaymentsInv => OutcomeIsProviderFact
    BY DEF PaymentsInv
<1> QED
    BY <1>1, PaymentsInvariance, PTL

\* ensureFundingIntent, cancelOpenFunding: with any number of attempts and faults at most one intent of an order is open
\* at the provider, and none once the order is cancelled unpaid.
THEOREM AtMostOneOpenIntent == Spec => []OneOpenIntent
<1>1. PaymentsInv => OneOpenIntent
  <2> SUFFICES ASSUME PaymentsInv PROVE OneOpenIntent
      OBVIOUS
  <2> DEFINE open == {i \in Attempts : Open(i) /\ fund[i].op # "FAILED"}
  <2>1. \A i \in open : i = attempts
    <3> SUFFICES ASSUME NEW i \in open PROVE i = attempts
        OBVIOUS
    <3>1. AttemptInv(i) /\ i \in Int /\ attempts \in Int
        BY PaymentsAssumption DEF PaymentsInv, AttemptsInv, JournalTypes, Attempts
    <3>2. ~(i < attempts) /\ ~(i > attempts)
        BY <3>1 DEF AttemptInv, Open
    <3> QED
        BY <3>1, <3>2
  <2>2. status = "CANCELLED" /\ payment \in Unpaid => open = {}
      BY DEF PaymentsInv, AttemptsInv, AttemptInv
  <2>3. open = {} \/ open = {attempts}
      BY <2>1
  <2>4. Cardinality({}) = 0 /\ Cardinality({attempts}) = 1
      BY FS_EmptySet, FS_Singleton
  <2>5. Cardinality(open) = 0 \/ Cardinality(open) = 1
      BY <2>3, <2>4
  <2>6. status = "CANCELLED" /\ payment \in Unpaid => Cardinality(open) = 0
      BY <2>2, <2>4
  <2>7. OneOpenIntent <=> Cardinality(open) <= IF status = "CANCELLED" /\ payment \in Unpaid THEN 0 ELSE 1
      BY DEF OneOpenIntent
  <2> HIDE DEF open
  <2> QED
      BY <2>5, <2>6, <2>7
<1> QED
    BY <1>1, PaymentsInvariance, PTL

-----------------------------------------------------------------------------
(* The books *)

Paid == [k \in books |-> k.amount]

LEMMA BookedAmounts ==
    ASSUME JournalTypes, NEW kinds
    PROVE  Amounts(Paid, Booked(kinds)) /\ Sum(kinds) = Total(Paid, Booked(kinds)) /\ Sum(kinds) \in Nat
<1>1. Booked(kinds) \subseteq books /\ IsFiniteSet(books)
    BY DEF Booked, JournalTypes
<1>2. IsFiniteSet(Booked(kinds))
    BY <1>1, FS_Subset
<1>3. \A k \in Booked(kinds) : Paid[k] \in Nat
    BY <1>1, PaymentsAssumption DEF Paid, JournalTypes, BookRows
<1>4. Amounts(Paid, Booked(kinds))
    BY <1>2, <1>3 DEF Amounts
<1>5. Sum(kinds) = Total(Paid, Booked(kinds))
    BY DEF Sum, Paid
<1> QED
    BY <1>4, <1>5, TotalNat

\* What a set of at most one booking sums to.
LEMMA OneBooking ==
    ASSUME JournalTypes, NEW kinds, NEW k, Booked(kinds) = {k}
    PROVE  Sum(kinds) = k.amount
<1>1. k \in books /\ Paid[k] = k.amount
    BY DEF Booked, Paid
<1>2. k.amount \in Nat
    BY <1>1, PaymentsAssumption DEF JournalTypes, BookRows
<1> QED
    BY <1>1, <1>2, BookedAmounts, TotalOne

LEMMA NoBooking ==
    ASSUME JournalTypes, NEW kinds, Booked(kinds) = {}
    PROVE  Sum(kinds) = 0
    BY BookedAmounts, TotalEmpty

LEMMA BookedApart ==
    ASSUME JournalTypes, NEW some, NEW more, some \cap more = {}
    PROVE  Sum(some \cup more) = Sum(some) + Sum(more)
<1>1. Booked(some \cup more) = Booked(some) \cup Booked(more) /\ Booked(some) \cap Booked(more) = {}
    BY DEF Booked
<1> QED
    BY <1>1, BookedAmounts, TotalUnion

\* Refund and release together are what was captured, or nothing was booked: what RowInv says of the amounts.
LEMMA BookedAgainstRow ==
    ASSUME PaymentsInv
    PROVE  /\ Sum({"refund"}) = IF payment \in {"REFUNDED", "PARTIALLY_REFUNDED"} THEN RefundAmount(refundDue) ELSE 0
           /\ Sum({"release"}) = IF settlement = "RELEASED" THEN RemainderOf(refundDue) ELSE 0
           /\ Sum({"refund"}) + Sum({"release"}) <= Amount
           /\ Sum({"refund"}) + Sum({"release"}) # 0 => Sum({"funding"}) >= Amount
<1> USE DEF PaymentsInv
<1>1. Sum({"refund"}) = IF payment \in {"REFUNDED", "PARTIALLY_REFUNDED"} THEN RefundAmount(refundDue) ELSE 0
  <2>1. CASE payment \in {"REFUNDED", "PARTIALLY_REFUNDED"}
    <3>1. Booked({"refund"}) = {RefundBook}
        BY <2>1 DEF BooksInv
    <3>2. Sum({"refund"}) = RefundBook.amount
        BY <3>1, OneBooking
    <3> QED
        BY <2>1, <3>2 DEF RefundBook
  <2>2. CASE payment \notin {"REFUNDED", "PARTIALLY_REFUNDED"}
    <3>1. Booked({"refund"}) = {}
        BY <2>2 DEF BooksInv
    <3> QED
        BY <2>2, <3>1, NoBooking
  <2> QED
      BY <2>1, <2>2
<1>2. Sum({"release"}) = IF settlement = "RELEASED" THEN RemainderOf(refundDue) ELSE 0
  <2>1. CASE settlement = "RELEASED"
    <3>1. Booked({"release"}) = {ReleaseBook}
        BY <2>1 DEF BooksInv
    <3>2. Sum({"release"}) = ReleaseBook.amount
        BY <3>1, OneBooking
    <3> QED
        BY <2>1, <3>2 DEF ReleaseBook
  <2>2. CASE settlement # "RELEASED"
    <3>1. Booked({"release"}) = {}
        BY <2>2 DEF BooksInv
    <3> QED
        BY <2>2, <3>1, NoBooking
  <2> QED
      BY <2>1, <2>2
<1>3. Sum({"refund"}) + Sum({"release"}) <= Amount
    BY <1>1, <1>2, PaymentsAssumption DEF RowInv, RowTypes, RefundAmount, RemainderOf, NoAmount, Unpaid
<1>4. ASSUME NEW t \in Transfers, ptr[t].status = "SUCCEEDED"
      PROVE  Sum({"funding"}) >= Amount
  <2>1. ptr[t].applied /\ TransferInv(t)
      BY <1>4 DEF TransfersInv, TransferInv, JournalTypes, TransferRows
  <2>2. PICK i \in Attempts : fund[i].fact = "SUCCEEDED"
      BY <2>1 DEF TransferInv
  <2>3. FundingBook(i) \in Booked({"funding"})
      BY <2>2 DEF BooksInv
  <2>4. Paid[FundingBook(i)] = Amount
      BY <2>3 DEF Booked, Paid, FundingBook
  <2>5. Paid[FundingBook(i)] <= Total(Paid, Booked({"funding"}))
      BY <2>3, BookedAmounts, TotalRemove
  <2> QED
      BY <2>4, <2>5, BookedAmounts, PaymentsAssumption
<1>5. Sum({"refund"}) # 0 => ptr["refund"].status = "SUCCEEDED"
    BY <1>1 DEF OutcomeIsProviderFact
<1>6. Sum({"release"}) # 0 => ptr["release"].status = "SUCCEEDED"
    BY <1>2 DEF OutcomeIsProviderFact
<1>7. Sum({"refund"}) + Sum({"release"}) # 0 => Sum({"funding"}) >= Amount
  <2>1. Sum({"refund"}) \in Nat /\ Sum({"release"}) \in Nat
      BY BookedAmounts
  <2>2. "refund" \in Transfers /\ "release" \in Transfers
      BY DEF Transfers
  <2>3. Sum({"refund"}) + Sum({"release"}) # 0 => Sum({"refund"}) # 0 \/ Sum({"release"}) # 0
      BY <2>1
  <2> QED
      BY <1>4, <1>5, <1>6, <2>2, <2>3
<1> QED
    BY <1>1, <1>2, <1>3, <1>7

\* funding.ts (postOnce and the row updates beside it): with any number of attempts, faults and events in flight, the
\* ledger and the row tell one story.
THEOREM BooksTellTheRow == Spec => []BooksMatchRow
<1>1. PaymentsInv => BooksMatchRow
  <2> SUFFICES ASSUME PaymentsInv PROVE BooksMatchRow
      OBVIOUS
  <2> DEFINE paidOut == payment = "REFUNDED" \/ (settlement = "RELEASED" /\ payment # "REFUND_PENDING")
             back == Booked({"bank-return", "bank-loss"}) = {}
  <2>0. JournalTypes /\ RowInv /\ BooksInv
      BY DEF PaymentsInv
  <2>1. (Booked({"refund"}) # {} <=> payment \in {"REFUNDED", "PARTIALLY_REFUNDED"})
        /\ (Booked({"release"}) # {} <=> settlement = "RELEASED")
      BY <2>0 DEF BooksInv
  <2>2. {"refund", "release"} = {"refund"} \cup {"release"} /\ {"refund"} \cap {"release"} = {}
      OBVIOUS
  <2>3. Sum({"refund", "release"}) = Sum({"refund"}) + Sum({"release"})
      BY <2>0, <2>2, BookedApart
  <2>4. Sum({"refund"}) \in Nat /\ Sum({"release"}) \in Nat /\ Sum({"funding"}) \in Nat
      BY <2>0, BookedAmounts
  <2>5. Sum({"refund", "release"}) <= Sum({"funding"})
      BY <2>3, <2>4, BookedAgainstRow, PaymentsAssumption
  <2>6. ASSUME paidOut, back, Cardinality(Booked({"funding"})) = 1
        PROVE  Principal = 0
    <3>1. Sum({"refund"}) + Sum({"release"}) = Amount
      <4>1. payment # "RETURNED"
          BY <2>0, <2>6 DEF BooksInv
      <4> QED
          BY <2>0, <2>6, <4>1, BookedAgainstRow, PaymentsAssumption
          DEF RowInv, RowTypes, RefundAmount, RemainderOf, NoAmount, Unpaid
    <3>2. Sum({"funding"}) = Amount
      <4>1. IsFiniteSet(Booked({"funding"}))
          BY <2>0, BookedAmounts DEF Amounts
      <4>2. PICK k : Booked({"funding"}) = {k}
          BY <2>6, <4>1, FS_Singleton
      <4>3. k.amount = Amount
          BY <2>0, <4>2 DEF BooksInv, FundingBook
      <4> QED
          BY <2>0, <4>2, <4>3, OneBooking
    <3>3. Sum({"bank-return"}) = 0
      <4>1. Booked({"bank-return"}) = {}
          BY <2>6 DEF Booked
      <4> QED
          BY <2>0, <4>1, NoBooking
    <3>4. Sum({"refund", "release"} \cup {"bank-return"}) = Sum({"refund", "release"}) + Sum({"bank-return"})
        BY <2>0, BookedApart
    <3>5. {"refund", "release"} \cup {"bank-return"} = {"refund", "release", "bank-return"}
        OBVIOUS
    <3> QED
        BY <2>3, <2>4, <3>1, <3>2, <3>3, <3>4, <3>5, PaymentsAssumption DEF Principal
  <2> QED
      BY <2>1, <2>5, <2>6 DEF BooksMatchRow
<1> QED
    BY <1>1, PaymentsInvariance, PTL

-----------------------------------------------------------------------------
(* Refinement: the rail makes only the money moves of OrderMoney *)

MoneySame == UNCHANGED <<status, payment, settlement, refundDue>>

\* The checkout: attempts, switches, cancellation and expiry.
LEMMA CheckoutMoves ==
    ASSUME PaymentsInv, (\E m \in Methods : EnsureFundingIntent(m) \/ SwitchMethod(m)) \/ CancelUnpaid \/ ExpireHold
    PROVE  Money!Next \/ MoneySame
<1>0. RowInv
    BY DEF PaymentsInv
<1>1. CASE \E m \in Methods : EnsureFundingIntent(m) \/ SwitchMethod(m)
  <2>1. status = "AWAITING_PAYMENT" /\ UNCHANGED <<status, settlement, refundDue>>
        /\ (payment' = payment \/ (payment = "FAILED" /\ payment' = "PENDING"))
      BY <1>1 DEF EnsureFundingIntent, SwitchMethod, Payable
  <2> QED
      BY <2>1 DEF Money!Next, Money!Attempt, MoneySame
<1>2. CASE CancelUnpaid \/ ExpireHold
  <2>1. status = "AWAITING_PAYMENT" /\ UNCHANGED <<payment, settlement, refundDue>> /\ status' \in {status, "CANCELLED"}
      BY <1>2 DEF CancelUnpaid, ExpireHold
  <2>2. payment # "SUCCEEDED"
      BY <1>0, <2>1 DEF RowInv, Unpaid
  <2> QED
      BY <2>1, <2>2 DEF Money!Next, Money!CancelBeforeWork, MoneySame
<1> QED
    BY <1>1, <1>2

\* Commands after the checkout.
LEMMA CommandMoves ==
    ASSUME PaymentsInv,
           \/ CancelFunded \/ Start \/ Approve \/ RefundLateFunding \/ \E refund \in 0..Amount : AcceptCancellation(refund)
           \/ \E refund \in 1..Amount : ResolveRefund(refund)
    PROVE  Money!Next \/ MoneySame
<1>1. CASE CancelFunded
    BY <1>1 DEF CancelFunded, Money!Next, Money!CancelBeforeWork
<1>2. CASE Start
    BY <1>2 DEF Start, Money!Next, Money!Work
<1>3. CASE Approve
    BY <1>3 DEF Approve, Money!Next, Money!Approve
<1>4. CASE RefundLateFunding
    BY <1>4 DEF RefundLateFunding, Money!Next, Money!RefundLate, MoneySame, Money!Unpaid, Unpaid
<1>5. ASSUME NEW refund \in 0..Amount, AcceptCancellation(refund)
      PROVE  Money!Next
    BY <1>5 DEF AcceptCancellation, Money!Next, Money!Agree
<1>6. ASSUME NEW refund \in 1..Amount, ResolveRefund(refund)
      PROVE  Money!Next
    BY <1>6 DEF ResolveRefund, Money!Next, Money!Decide, Money!NoAmount, NoAmount
<1> QED
    BY <1>1, <1>2, <1>3, <1>4, <1>5, <1>6

\* Payouts and retries.
LEMMA ReleaseMoves ==
    ASSUME PaymentsInv, RequestRelease
    PROVE  Money!Next \/ MoneySame
<1>1. UNCHANGED <<status, payment, refundDue>> /\ (settlement' = settlement \/ (settlement = "READY" /\ settlement' = "PENDING"))
    BY DEF RequestRelease
<1> QED
    BY <1>1 DEF Money!Next, Money!Settle, MoneySame

\* Events.
LEMMA EventMoves ==
    ASSUME PaymentsInv, NEW e \in sent, ProcessEvent(e)
    PROVE  Money!Next \/ MoneySame
<1>0. RowInv /\ UNCHANGED refundDue
    BY DEF PaymentsInv, ProcessEvent
<1>1. CASE FundingSucceeded(e.id)
  <2>1. KeepRow \/ (status = "AWAITING_PAYMENT" /\ status' = "FUNDED" /\ payment' = "SUCCEEDED" /\ UNCHANGED settlement)
        \/ UNCHANGED <<status, payment, settlement>>
      BY <1>1 DEF FundingSucceeded
  <2>2. status = "AWAITING_PAYMENT" => payment \in Unpaid
      BY <1>0 DEF RowInv
  <2> QED
      BY <1>0, <2>1, <2>2 DEF KeepRow, MoneySame, Money!Next, Money!Fund, Money!Unpaid, Unpaid
<1>2. CASE FundingReturned(e.id)
  <2>1. KeepRow \/ /\ payment \in {"SUCCEEDED", "REFUND_PENDING"} /\ payment' = "RETURNED"
                   /\ \/ status = "FUNDED" /\ status' = "CANCELLED" /\ settlement' = "NOT_READY"
                      \/ status # "FUNDED" /\ UNCHANGED <<status, settlement>>
      BY <1>2 DEF FundingReturned
  <2>2. status = "FUNDED" => settlement = "NOT_READY"
      BY <1>0 DEF RowInv
  <2> QED
      BY <1>0, <2>1, <2>2 DEF KeepRow, MoneySame, Money!Next, Money!Returned
<1>3. CASE FundingProgress(e.id, e.status)
  <2>1. /\ UNCHANGED <<status, settlement>>
        /\ \/ payment' = payment
           \/ /\ status = "AWAITING_PAYMENT"
              /\ \/ payment = "PENDING" /\ payment' = "PROCESSING"
                 \/ payment = "PENDING" /\ payment' = "FAILED"
                 \/ payment = "PROCESSING" /\ payment' = "FAILED"
      BY <1>3 DEF FundingProgress
  <2> QED
      BY <1>0, <2>1 DEF MoneySame, Money!Next, Money!Attempt
<1>4. CASE RefundSucceeded
  <2>1. KeepRow \/ /\ payment = "REFUND_PENDING"
                   /\ \/ /\ RefundAmount(refundDue) = Amount
                         /\ status' = "REFUNDED" /\ payment' = "REFUNDED" /\ settlement' = "NOT_READY"
                      \/ /\ RefundAmount(refundDue) # Amount
                         /\ payment' = "PARTIALLY_REFUNDED" /\ UNCHANGED <<status, settlement>>
      BY <1>4 DEF RefundSucceeded
  <2>2. payment = "REFUND_PENDING" => status = "CANCELLED"
      BY <1>0 DEF RowInv, RowTypes, Unpaid
  <2>3. RefundAmount(refundDue) = Amount <=> refundDue \in {NoAmount, Amount}
      BY DEF RefundAmount
  <2>4. status = "CANCELLED" /\ refundDue \in {NoAmount, Amount} => settlement = "NOT_READY"
      BY <1>0 DEF RowInv
  <2>5. CASE KeepRow
      BY <1>0, <2>5 DEF KeepRow, MoneySame
  <2>6. CASE ~KeepRow
    <3>1. Money!Refunded
        BY <1>0, <2>1, <2>2, <2>3, <2>4, <2>6 DEF Money!Refunded, Money!NoAmount, NoAmount
    <3> QED
        BY <3>1 DEF Money!Next
  <2> QED
      BY <2>5, <2>6
<1>5. CASE ReleaseSucceeded \/ ReleaseOther(e.status)
  <2>1. KeepRow \/ /\ UNCHANGED payment
                   /\ \/ UNCHANGED <<status, settlement>>
                      \/ /\ settlement \in {"READY", "PENDING"} /\ settlement' = "RELEASED"
                         /\ status' = IF status = "APPROVED" THEN "COMPLETED" ELSE status
                      \/ settlement \in {"READY", "PENDING"} /\ settlement' = "FAILED" /\ UNCHANGED status
                      \/ settlement = "READY" /\ settlement' = "PENDING" /\ UNCHANGED status
      BY <1>5 DEF ReleaseSucceeded, ReleaseOther
  <2> QED
      BY <1>0, <2>1 DEF KeepRow, MoneySame, Money!Next, Money!Settle
<1>6. CASE KeepRow
    BY <1>0, <1>6 DEF KeepRow, MoneySame
<1> QED
    BY <1>1, <1>2, <1>3, <1>4, <1>5, <1>6
    DEF ProcessEvent, ApplyFundingEvent, ApplyRefundEvent, ApplyReleaseEvent, ApplyDisputeEvent

\* Whatever the provider, the faults and the order of events do, the rail makes only the money moves OrderMoney allows:
\* the promise that OrderLifecycle relies on, for any amount and any number of attempts.
THEOREM PaymentsImplementMoney == Spec => MoneyMovesRespected
<1>1. Init => Money!Init
    BY DEF Init, Money!Init, NoAmount, Money!NoAmount
<1>2. PaymentsInv /\ [Next]_vars => [Money!Next]_(Money!moneyVars)
  <2> SUFFICES ASSUME PaymentsInv, [Next]_vars PROVE Money!Next \/ MoneySame
      BY DEF Money!moneyVars, MoneySame
  <2>1. CASE Commands
    <3>1. CASE \E reason \in {"BUYER_CANCELED_BEFORE_WORK", "MUTUAL_CANCELLATION", "OPERATOR_RESOLUTION"} : RetryRefund(reason)
        BY <3>1 DEF RetryRefund, MoneySame
    <3> QED
        BY <2>1, <3>1, CheckoutMoves, CommandMoves DEF Commands
  <2>2. CASE Jobs
    <3>1. CASE \/ ResolveFunding \/ RetryPendingRefund \/ \E i \in Attempts : LookupFunding(i) \/ FetchFunding(i)
               \/ \E t \in Transfers : ResolveTransfer(t) \/ FetchTransfer(t)
        BY <3>1 DEF ResolveFunding, RetryPendingRefund, LookupFunding, FetchFunding, ResolveTransfer, FetchTransfer,
                    row, MoneySame
    <3>2. CASE ReleaseReadySettlements \/ RetryPendingRelease
        BY <3>2, ReleaseMoves DEF ReleaseReadySettlements, RetryPendingRelease
    <3> QED
        BY <2>2, <3>1, <3>2, CheckoutMoves DEF Jobs, Reconcile
  <2>3. CASE Provider
      BY <2>3 DEF Provider, LateCapture, BankReturn, FundingOutcome, SettleTransfer, OpenChargeback, DecideChargeback,
                  ProviderStep, row, MoneySame
  <2>4. CASE Delivery
    <3>1. ASSUME NEW e \in sent, LoseEvent(e) PROVE MoneySame
        BY <3>1 DEF LoseEvent, row, MoneySame
    <3> QED
        BY <2>4, <3>1, EventMoves DEF Delivery
  <2>5. CASE UNCHANGED vars
      BY <2>5 DEF vars, row, MoneySame
  <2> QED
      BY <2>1, <2>2, <2>3, <2>4, <2>5 DEF Next
<1> QED
    BY <1>1, <1>2, PaymentsInvariance, PTL DEF Spec, Money!Spec, MoneyMovesRespected

LEMMA RecordsKept == PaymentsInv /\ [Money!Next]_(Money!moneyVars) => [Money!Recorded]_(Money!moneyVars)
<1> SUFFICES ASSUME PaymentsInv, Money!Next
             PROVE  Money!Recorded
    OBVIOUS
<1>1. /\ status \in {"AWAITING_PAYMENT", "FUNDED", "WORKING"} =>
             settlement = "NOT_READY" /\ payment \notin {"REFUNDED", "PARTIALLY_REFUNDED"} /\ refundDue = NoAmount
      /\ status = "COMPLETED" => settlement = "RELEASED"
      /\ status = "REFUNDED" => settlement = "NOT_READY" /\ payment = "REFUNDED"
    BY DEF PaymentsInv, RowInv, Unpaid, NoAmount
<1> USE DEF Money!Recorded, Money!NoAmount, NoAmount
<1>2. CASE Money!Attempt
    BY <1>1, <1>2 DEF Money!Attempt
<1>3. CASE Money!Fund \/ Money!Work \/ Money!CancelBeforeWork \/ Money!Approve
    BY <1>1, <1>3 DEF Money!Fund, Money!Work, Money!CancelBeforeWork, Money!Approve
<1>4. CASE (\E refund \in 0..Amount : Money!Agree(refund)) \/ \E refund \in 1..Amount : Money!Decide(refund)
    BY <1>1, <1>4 DEF Money!Agree, Money!Decide
<1>5. CASE Money!RefundLate \/ Money!Returned \/ Money!Refunded
    BY <1>1, <1>5 DEF Money!RefundLate, Money!Unpaid, Money!Returned, Money!Refunded
<1>6. CASE Money!Settle
    BY <1>1, <1>6 DEF Money!Settle
<1> QED
    BY <1>2, <1>3, <1>4, <1>5, <1>6 DEF Money!Next

\* Lost, late, repeated and reordered events, retries of jobs and second decisions never take back a recorded release or
\* refund, nor the refund that was agreed on (processVerifiedEvent, requestProviderRefund, requestCreatorRelease).
THEOREM PaymentsKeepRecords == Spec => Money!RecordedStays
    BY PaymentsInvariance, PaymentsImplementMoney, RecordsKept, PTL DEF MoneyMovesRespected, Money!Spec, Money!RecordedStays

-----------------------------------------------------------------------------
(* Refinement: the provider the rail works with keeps the contract of Charges *)

\* A charge as a record, from its parts.
ChargeRow(status_, method_, amount, pending, paid, back) ==
    [status |-> status_, method |-> method_, amount |-> amount, pending |-> pending, paid |-> paid, back |-> back]
NoChargeRow == ChargeRow("NONE", "NONE", 0, 0, 0, 0)

\* Steps of a charge, from its parts.
LEMMA ChargeBegins ==
    ASSUME NEW m \in {"CARD", "BANK_TRANSFER"}, NEW a \in Nat \ {0}
    PROVE  Contract!Step(NoChargeRow, ChargeRow("REQUIRES_ACTION", m, a, 0, 0, 0))
<1> DEFINE c == NoChargeRow
           d1 == ChargeRow("REQUIRES_ACTION", m, a, 0, 0, 0)
           e1 == [c EXCEPT !.status = "REQUIRES_ACTION"]
           e2 == [e1 EXCEPT !.method = m]
           e3 == [e2 EXCEPT !.amount = a]
<1>1. c.status = "NONE" /\ d1.method = m /\ d1.amount = a
    BY DEF NoChargeRow, ChargeRow
<1>2. e1 = ChargeRow("REQUIRES_ACTION", "NONE", 0, 0, 0, 0)
    BY DEF NoChargeRow, ChargeRow
<1>3. e2 = ChargeRow("REQUIRES_ACTION", m, 0, 0, 0, 0)
  <2> HIDE DEF e1
  <2> QED
      BY <1>2 DEF ChargeRow
<1>4. e3 = d1
  <2> HIDE DEF e2
  <2> QED
      BY <1>3 DEF ChargeRow
<1>5. [c EXCEPT !.status = "REQUIRES_ACTION", !.method = m, !.amount = a] = d1
    BY <1>4
<1> HIDE DEF c, d1
<1>6. Contract!Created(c, d1)
  <2>1. d1.amount > 0
      BY <1>1
  <2> QED
      BY <1>1, <1>5, <2>1, Zenon DEF Contract!Created
<1> QED
    BY <1>6 DEF Contract!Step, c, d1

\* How a charge's status may move, by its method.
StatusMoves(s, t, m) ==
    \/ s \in {"REQUIRES_ACTION", "PROCESSING"} /\ t \in {"SUCCEEDED", "FAILED"}
    \/ s = "REQUIRES_ACTION" /\ t \in {"PROCESSING", "CANCELED"}
    \/ s = "PROCESSING" /\ t = "CANCELED" /\ m = "CARD"
    \/ s = "CANCELED" /\ t = "SUCCEEDED"
    \/ s = "SUCCEEDED" /\ t = "RETURNED" /\ m = "BANK_TRANSFER"

LEMMA ChargeMoves ==
    ASSUME NEW s, NEW t, NEW m, NEW a, NEW p, NEW d, NEW b, StatusMoves(s, t, m)
    PROVE  Contract!Step(ChargeRow(s, m, a, p, d, b), ChargeRow(t, m, a, p, d, b))
<1>1. Contract!Moved(ChargeRow(s, m, a, p, d, b), ChargeRow(t, m, a, p, d, b))
    BY DEF Contract!Moved, ChargeRow, StatusMoves
<1> QED
    BY <1>1 DEF Contract!Step

LEMMA ChargePays ==
    ASSUME NEW m, NEW a \in Nat, NEW p \in Nat, NEW d \in Nat, NEW b \in Nat, NEW x \in Nat \ {0}, x <= a - p - d + b
    PROVE  /\ Contract!Step(ChargeRow("SUCCEEDED", m, a, p, d, b), ChargeRow("SUCCEEDED", m, a, p + x, d, b))
           /\ Contract!Step(ChargeRow("SUCCEEDED", m, a, p, d, b), ChargeRow("SUCCEEDED", m, a, p, d + x, b))
<1> DEFINE c == ChargeRow("SUCCEEDED", m, a, p, d, b)
<1>1. Contract!Left(c) = a - p - d + b
    BY DEF Contract!Left, ChargeRow
<1>2. [c EXCEPT !.pending = @ + x] = ChargeRow("SUCCEEDED", m, a, p + x, d, b) /\ [c EXCEPT !.paid = @ + x] = ChargeRow("SUCCEEDED", m, a, p, d + x, b)
    BY DEF ChargeRow
<1>3. x \in 1..Contract!Left(c)
    BY <1>1
<1> HIDE DEF c
<1>4. Contract!PaidOut(c, [c EXCEPT !.pending = @ + x]) /\ Contract!PaidOut(c, [c EXCEPT !.paid = @ + x])
    BY <1>3 DEF Contract!PaidOut
<1>5. Contract!Step(c, ChargeRow("SUCCEEDED", m, a, p + x, d, b)) /\ Contract!Step(c, ChargeRow("SUCCEEDED", m, a, p, d + x, b))
    BY <1>2, <1>4 DEF Contract!Step
<1> QED
    BY <1>5 DEF c

LEMMA ChargeSettles ==
    ASSUME NEW s, NEW m, NEW a, NEW p \in Nat, NEW d \in Nat, NEW b \in Nat, NEW x \in Nat \ {0}, x <= p
    PROVE  /\ Contract!Step(ChargeRow(s, m, a, p, d, b), ChargeRow(s, m, a, p - x, d, b))
           /\ Contract!Step(ChargeRow(s, m, a, p, d, b), ChargeRow(s, m, a, p - x, d + x, b))
<1> DEFINE c == ChargeRow(s, m, a, p, d, b)
<1>1. c.pending = p
    BY DEF ChargeRow
<1>2. [c EXCEPT !.pending = @ - x] = ChargeRow(s, m, a, p - x, d, b)
    BY DEF ChargeRow
<1>3. [c EXCEPT !.pending = @ - x, !.paid = @ + x] = ChargeRow(s, m, a, p - x, d + x, b)
  <2> DEFINE e == [c EXCEPT !.pending = @ - x]
  <2>1. e = ChargeRow(s, m, a, p - x, d, b)
      BY <1>2
  <2>2. [e EXCEPT !.paid = @ + x] = ChargeRow(s, m, a, p - x, d + x, b)
    <3> HIDE DEF e
    <3> QED
        BY <2>1 DEF ChargeRow
  <2> QED
      BY <2>2
<1>4. x \in 1..c.pending
    BY <1>1
<1> HIDE DEF c
<1>5. Contract!Settled(c, [c EXCEPT !.pending = @ - x]) /\ Contract!Settled(c, [c EXCEPT !.pending = @ - x, !.paid = @ + x])
    BY <1>4 DEF Contract!Settled
<1>6. Contract!Step(c, ChargeRow(s, m, a, p - x, d, b)) /\ Contract!Step(c, ChargeRow(s, m, a, p - x, d + x, b))
    BY <1>2, <1>3, <1>5 DEF Contract!Step
<1> QED
    BY <1>6 DEF c

\* What transfers in status s draw on attempt i; an attempt as a charge.
Out(ps, t, i, s) == IF ps[t].req.fund = i /\ ps[t].status = s THEN ps[t].req.amount ELSE 0
OutOf(ps, i, s) == Out(ps, "refund", i, s) + Out(ps, "release", i, s)
AttemptCharge(pf, fs, ps, i) ==
    ChargeRow(pf[i], IF pf[i] = "NONE" THEN "NONE" ELSE fs[i].method, IF pf[i] = "NONE" THEN 0 ELSE Amount,
              OutOf(ps, i, "PENDING"), OutOf(ps, i, "SUCCEEDED"), 0)
ChargeAt(i) == AttemptCharge(pfund, fund, ptr, i)
ChargesStep == \A i \in Attempts : ChargeAt(i)' = ChargeAt(i) \/ Contract!Step(ChargeAt(i), ChargeAt(i)')

LEMMA ChargesAre == ASSUME NEW i PROVE ChargeOf(i) = ChargeAt(i) /\ ChargeOf(i)' = ChargeAt(i)'
    BY DEF ChargeOf, ChargeAt, AttemptCharge, ChargeRow, OutOf, Out

LEMMA OutNat ==
    ASSUME NEW ps \in [Transfers -> TransferRows], NEW i, NEW s
    PROVE  Out(ps, "refund", i, s) \in Nat /\ Out(ps, "release", i, s) \in Nat /\ OutOf(ps, i, s) \in Nat
<1>1. \A t \in Transfers : ps[t].req.amount \in Nat
    BY PaymentsAssumption DEF TransferRows, Reqs
<1> QED
    BY <1>1 DEF Out, OutOf, Transfers

\* Nothing is drawn on an attempt that was not captured.
LEMMA NoneOut ==
    ASSUME PaymentsInv, NEW i \in Attempts, pfund[i] = "NONE", NEW s \in {"PENDING", "SUCCEEDED"}
    PROVE  OutOf(ptr, i, s) = 0
<1>1. \A t \in Transfers : TransferInv(t) /\ AttemptInv(i)
    BY DEF PaymentsInv, TransfersInv, AttemptsInv
<1>2. \A t \in Transfers : ~(ptr[t].req.fund = i /\ ptr[t].status = s)
    BY <1>1 DEF TransferInv, AttemptInv, FundingFact
<1>3. Out(ptr, "refund", i, s) = 0 /\ Out(ptr, "release", i, s) = 0
    BY <1>2 DEF Out, Transfers
<1> QED
    BY <1>3 DEF OutOf

\* Attempts begin, move as the contract allows, or stay.
AttemptsMove ==
    \A i \in Attempts : /\ pfund[i] # "NONE" => fund'[i].method = fund[i].method
                        /\ \/ pfund'[i] = pfund[i]
                           \/ pfund[i] = "NONE" /\ pfund'[i] = "REQUIRES_ACTION"
                           \/ StatusMoves(pfund[i], pfund'[i], fund[i].method)

LEMMA AttemptCharges ==
    ASSUME PaymentsInv, fund' \in [Attempts -> FundRows], AttemptsMove, ptr' = ptr
    PROVE  ChargesStep
<1> SUFFICES ASSUME NEW i \in Attempts
             PROVE  ChargeAt(i)' = ChargeAt(i) \/ Contract!Step(ChargeAt(i), ChargeAt(i)')
    BY DEF ChargesStep
<1> DEFINE p == OutOf(ptr, i, "PENDING")
           d == OutOf(ptr, i, "SUCCEEDED")
<1>1. Amount \in Nat \ {0} /\ fund'[i].method \in Methods
    BY PaymentsAssumption DEF FundRows
<1>2. /\ ChargeAt(i) = ChargeRow(pfund[i], IF pfund[i] = "NONE" THEN "NONE" ELSE fund[i].method, IF pfund[i] = "NONE" THEN 0 ELSE Amount, p, d, 0)
      /\ ChargeAt(i)' = ChargeRow(pfund'[i], IF pfund'[i] = "NONE" THEN "NONE" ELSE fund'[i].method, IF pfund'[i] = "NONE" THEN 0 ELSE Amount, p, d, 0)
    BY DEF ChargeAt, AttemptCharge
<1>3. /\ pfund[i] # "NONE" => fund'[i].method = fund[i].method
      /\ \/ pfund'[i] = pfund[i]
         \/ pfund[i] = "NONE" /\ pfund'[i] = "REQUIRES_ACTION"
         \/ StatusMoves(pfund[i], pfund'[i], fund[i].method)
    BY DEF AttemptsMove
<1>4. pfund[i] = "NONE" => p = 0 /\ d = 0
    BY NoneOut
<1> HIDE DEF p, d
<1>5. CASE pfund'[i] = pfund[i]
    BY <1>2, <1>3, <1>5
<1>6. CASE pfund[i] = "NONE" /\ pfund'[i] = "REQUIRES_ACTION"
  <2>1. ChargeAt(i) = NoChargeRow /\ ChargeAt(i)' = ChargeRow("REQUIRES_ACTION", fund'[i].method, Amount, 0, 0, 0)
      BY <1>2, <1>4, <1>6 DEF NoChargeRow
  <2>2. Contract!Step(NoChargeRow, ChargeRow("REQUIRES_ACTION", fund'[i].method, Amount, 0, 0, 0))
      BY <1>1, ChargeBegins DEF Methods
  <2> QED
      BY <2>1, <2>2, Zenon
<1>7. CASE StatusMoves(pfund[i], pfund'[i], fund[i].method)
  <2>1. pfund[i] # "NONE" /\ pfund'[i] # "NONE"
      BY <1>7 DEF StatusMoves
  <2>2. /\ ChargeAt(i) = ChargeRow(pfund[i], fund[i].method, Amount, p, d, 0)
        /\ ChargeAt(i)' = ChargeRow(pfund'[i], fund[i].method, Amount, p, d, 0)
      BY <1>2, <1>3, <2>1
  <2>3. Contract!Step(ChargeRow(pfund[i], fund[i].method, Amount, p, d, 0), ChargeRow(pfund'[i], fund[i].method, Amount, p, d, 0))
      BY <1>7, ChargeMoves
  <2> QED
      BY <2>2, <2>3, Zenon
<1> QED
    BY <1>3, <1>5, <1>6, <1>7

\* One transfer asked for or settled: it draws on what is left of its attempt, or what was on its way arrives or bounces.
LEMMA TransferCharges ==
    ASSUME PaymentsInv, NEW t \in Transfers, UNCHANGED <<fund, pfund>>, ptr' \in [Transfers -> TransferRows],
           \A u \in Transfers : u # t => ptr'[u] = ptr[u],
           \/ ptr[t].status \notin {"PENDING", "SUCCEEDED"} /\ ptr'[t].status \notin {"PENDING", "SUCCEEDED"}
           \/ /\ ptr[t].status \notin {"PENDING", "SUCCEEDED"} /\ ptr'[t].status = "PENDING"
              /\ ptr'[t].req.amount <= Available(ptr'[t].req.fund)
           \/ ptr[t].status = "PENDING" /\ ptr'[t].req = ptr[t].req /\ ptr'[t].status \in {"SUCCEEDED", "FAILED"}
    PROVE  ChargesStep
<1> SUFFICES ASSUME NEW i \in Attempts
             PROVE  ChargeAt(i)' = ChargeAt(i) \/ Contract!Step(ChargeAt(i), ChargeAt(i)')
    BY DEF ChargesStep
<1> DEFINE m == IF pfund[i] = "NONE" THEN "NONE" ELSE fund[i].method
           a == IF pfund[i] = "NONE" THEN 0 ELSE Amount
           p == OutOf(ptr, i, "PENDING")
           d == OutOf(ptr, i, "SUCCEEDED")
           p1 == OutOf(ptr', i, "PENDING")
           d1 == OutOf(ptr', i, "SUCCEEDED")
           x == IF ptr'[t].req.fund = i THEN ptr'[t].req.amount ELSE 0
           tp == Out(ptr, t, i, "PENDING")
           td == Out(ptr, t, i, "SUCCEEDED")
           tp1 == Out(ptr', t, i, "PENDING")
           td1 == Out(ptr', t, i, "SUCCEEDED")
<1>0. ptr \in [Transfers -> TransferRows] /\ Amount \in Nat
    BY PaymentsAssumption DEF PaymentsInv, JournalTypes
<1>1. ChargeAt(i) = ChargeRow(pfund[i], m, a, p, d, 0) /\ ChargeAt(i)' = ChargeRow(pfund[i], m, a, p1, d1, 0)
    BY DEF ChargeAt, AttemptCharge
<1>2. p \in Nat /\ d \in Nat /\ p1 \in Nat /\ d1 \in Nat /\ tp \in Nat /\ td \in Nat /\ tp1 \in Nat /\ td1 \in Nat
    BY <1>0, OutNat DEF Transfers
<1>3. p1 - p = tp1 - tp /\ d1 - d = td1 - td /\ tp <= p
  <2>1. \A u \in Transfers, s \in {"PENDING", "SUCCEEDED"} : u # t => Out(ptr', u, i, s) = Out(ptr, u, i, s)
      BY DEF Out
  <2>2. \A s \in {"PENDING", "SUCCEEDED"} : /\ Out(ptr, "refund", i, s) \in Nat /\ Out(ptr, "release", i, s) \in Nat
                                            /\ Out(ptr', "refund", i, s) \in Nat /\ Out(ptr', "release", i, s) \in Nat
      BY <1>0, OutNat
  <2>3. CASE t = "refund"
    <3>1. \A s \in {"PENDING", "SUCCEEDED"} : Out(ptr', "release", i, s) = Out(ptr, "release", i, s)
        BY <2>1, <2>3 DEF Transfers
    <3> QED
        BY <2>2, <2>3, <3>1 DEF OutOf
  <2>4. CASE t = "release"
    <3>1. \A s \in {"PENDING", "SUCCEEDED"} : Out(ptr', "refund", i, s) = Out(ptr, "refund", i, s)
        BY <2>1, <2>4 DEF Transfers
    <3> QED
        BY <2>2, <2>4, <3>1 DEF OutOf
  <2> QED
      BY <2>3, <2>4 DEF Transfers
<1>4. x \in Nat
    BY <1>0 DEF TransferRows, Reqs
<1>5. CASE ptr[t].status \notin {"PENDING", "SUCCEEDED"} /\ ptr'[t].status \notin {"PENDING", "SUCCEEDED"}
  <2>1. tp = 0 /\ td = 0 /\ tp1 = 0 /\ td1 = 0
      BY <1>5 DEF Out
  <2> HIDE DEF p, d, p1, d1, tp, td, tp1, td1
  <2>2. p1 = p /\ d1 = d
      BY <1>2, <1>3, <2>1
  <2> QED
      BY <1>1, <2>2
<1>6. CASE /\ ptr[t].status \notin {"PENDING", "SUCCEEDED"} /\ ptr'[t].status = "PENDING"
           /\ ptr'[t].req.amount <= Available(ptr'[t].req.fund)
  <2>1. tp = 0 /\ td = 0 /\ tp1 = x /\ td1 = 0
      BY <1>6 DEF Out
  <2>2. p1 = p + x /\ d1 = d
    <3> HIDE DEF p, d, p1, d1, tp, td, tp1, td1, x
    <3> QED
        BY <1>2, <1>3, <1>4, <2>1
  <2>3. CASE x = 0
    <3>1. p1 = p /\ d1 = d
      <4> HIDE DEF p, d, p1, d1, x
      <4> QED
          BY <1>2, <2>2, <2>3
    <3> QED
        BY <1>1, <3>1
  <2>4. CASE x # 0
    <3>1. ptr'[t].req.fund = i /\ x <= Available(i)
        BY <1>6, <2>4
    <3>2. \A u \in Transfers : Out(ptr, u, i, "PENDING") + Out(ptr, u, i, "SUCCEEDED") = Drawn(u, i)
        BY <1>0 DEF Out, Drawn, TransferRows, Reqs
    <3>3. p + d = Drawn("refund", i) + Drawn("release", i) /\ Drawn("refund", i) \in Nat /\ Drawn("release", i) \in Nat
      <4>1. \A s \in {"PENDING", "SUCCEEDED"} : Out(ptr, "refund", i, s) \in Nat /\ Out(ptr, "release", i, s) \in Nat
          BY <1>0, OutNat
      <4> QED
          BY <3>2, <4>1 DEF OutOf, Transfers
    <3>4. Available(i) = IF pfund[i] = "SUCCEEDED" THEN Amount - Drawn("refund", i) - Drawn("release", i) ELSE 0
        BY DEF Available, Drawn
    <3>5. pfund[i] = "SUCCEEDED" /\ a = Amount /\ x <= a - p - d + 0 /\ x \in Nat \ {0}
      <4> HIDE DEF p, d, x, Drawn
      <4>1. pfund[i] = "SUCCEEDED"
          BY <1>4, <2>4, <3>1, <3>4
      <4> QED
          BY <1>0, <1>2, <1>4, <2>4, <3>1, <3>3, <3>4, <4>1
    <3> HIDE DEF m, a, p, d, p1, d1, x
    <3>6. Contract!Step(ChargeRow("SUCCEEDED", m, a, p, d, 0), ChargeRow("SUCCEEDED", m, a, p + x, d, 0))
        BY <1>0, <1>2, <3>5, ChargePays
    <3>7. ChargeAt(i) = ChargeRow("SUCCEEDED", m, a, p, d, 0) /\ ChargeAt(i)' = ChargeRow("SUCCEEDED", m, a, p + x, d, 0)
        BY <1>1, <2>2, <3>5
    <3> QED
        BY <3>6, <3>7, Zenon
  <2> QED
      BY <2>3, <2>4
<1>7. CASE ptr[t].status = "PENDING" /\ ptr'[t].req = ptr[t].req /\ ptr'[t].status \in {"SUCCEEDED", "FAILED"}
  <2>1. tp = x /\ td = 0 /\ tp1 = 0 /\ (td1 = x \/ td1 = 0)
      BY <1>7 DEF Out
  <2>2. p1 = p - x /\ (d1 = d \/ d1 = d + x) /\ x <= p
    <3> HIDE DEF p, d, p1, d1, tp, td, tp1, td1, x
    <3> QED
        BY <1>2, <1>3, <1>4, <2>1
  <2> HIDE DEF m, a, p, d, p1, d1, x
  <2>3. CASE x = 0
    <3>1. p1 = p /\ d1 = d
        BY <1>2, <2>2, <2>3
    <3> QED
        BY <1>1, <3>1
  <2>4. CASE x # 0
    <3>1. /\ Contract!Step(ChargeRow(pfund[i], m, a, p, d, 0), ChargeRow(pfund[i], m, a, p - x, d, 0))
          /\ Contract!Step(ChargeRow(pfund[i], m, a, p, d, 0), ChargeRow(pfund[i], m, a, p - x, d + x, 0))
        BY <1>2, <1>4, <2>2, <2>4, ChargeSettles
    <3>2. ChargeAt(i)' = ChargeRow(pfund[i], m, a, p - x, d, 0) \/ ChargeAt(i)' = ChargeRow(pfund[i], m, a, p - x, d + x, 0)
        BY <1>1, <2>2
    <3> QED
        BY <1>1, <3>1, <3>2, Zenon
  <2> QED
      BY <2>3, <2>4
<1> QED
    BY <1>5, <1>6, <1>7

\* Steps that leave attempts and transfers alone.
LEMMA NothingCharged ==
    ASSUME PaymentsInv, PaymentsInv', UNCHANGED <<pfund, ptr>>, \A i \in Attempts : fund'[i].method = fund[i].method
    PROVE  ChargesStep
<1>1. AttemptsMove /\ fund' \in [Attempts -> FundRows]
    BY DEF AttemptsMove, PaymentsInv, JournalTypes
<1> QED
    BY <1>1, AttemptCharges

LEMMA RequestCharges ==
    ASSUME PaymentsInv, PaymentsInv', NEW t \in Transfers, NEW req, NEW commits, Request(t, req, commits), UNCHANGED <<fund, pfund>>
    PROVE  ChargesStep
<1>0. ptr \in [Transfers -> TransferRows] /\ ptr' \in [Transfers -> TransferRows] /\ TransferInv(t)
    BY DEF PaymentsInv, JournalTypes, TransfersInv
<1>1. CASE ptr' = ptr
    BY <1>1, NothingCharged
<1>2. CASE \E o \in Answers : /\ ~ptr[t].applied
           /\ LET moves == Reaches(o) /\ req.amount <= Available(req.fund)
              IN  ptr' = [ptr EXCEPT ![t] = IF moves THEN [applied |-> TRUE, req |-> req, status |-> "PENDING"]
                                            ELSE [NoTransfer EXCEPT !.req = req]]
  <2>1. PICK o \in Answers : /\ ~ptr[t].applied
           /\ ptr' = [ptr EXCEPT ![t] = IF Reaches(o) /\ req.amount <= Available(req.fund)
                                        THEN [applied |-> TRUE, req |-> req, status |-> "PENDING"]
                                        ELSE [NoTransfer EXCEPT !.req = req]]
      BY <1>2
  <2>2. ptr[t].status = "NONE"
      BY <1>0, <2>1 DEF TransferInv
  <2>3. \A u \in Transfers : u # t => ptr'[u] = ptr[u]
      BY <1>0, <2>1
  <2>4. CASE Reaches(o) /\ req.amount <= Available(req.fund)
    <3>1. ptr'[t].req = req /\ ptr'[t].status = "PENDING"
        BY <1>0, <2>1, <2>4
    <3> QED
        BY <1>0, <2>2, <2>3, <2>4, <3>1, TransferCharges
  <2>5. CASE ~(Reaches(o) /\ req.amount <= Available(req.fund))
    <3>1. ptr'[t].status = "NONE"
        BY <1>0, <2>1, <2>5 DEF NoTransfer
    <3> QED
        BY <1>0, <2>2, <2>3, <3>1, TransferCharges
  <2> QED
      BY <2>4, <2>5
<1> QED
    BY <1>1, <1>2 DEF Request

LEMMA SettleCharges ==
    ASSUME PaymentsInv, PaymentsInv', NEW t \in Transfers, NEW new \in {"SUCCEEDED", "FAILED"}, SettleTransfer(t, new)
    PROVE  ChargesStep
<1>1. UNCHANGED <<fund, pfund>> /\ ptr' = [ptr EXCEPT ![t].status = new] /\ ptr[t].status = "PENDING"
      /\ ptr \in [Transfers -> TransferRows] /\ ptr' \in [Transfers -> TransferRows]
    BY DEF SettleTransfer, ProviderStep, journal, PaymentsInv, JournalTypes
<1>2. ptr'[t].status = new /\ ptr'[t].req = ptr[t].req /\ \A u \in Transfers : u # t => ptr'[u] = ptr[u]
    BY <1>1 DEF TransferRows
<1> QED
    BY <1>1, <1>2, TransferCharges

\* The checkout: an attempt begins, is replayed, switched or cancelled.
LEMMA EnsureCharges ==
    ASSUME PaymentsInv, PaymentsInv', NEW m \in Methods, EnsureFundingIntent(m)
    PROVE  ChargesStep
<1>0. /\ fund \in [Attempts -> FundRows] /\ fund' \in [Attempts -> FundRows] /\ pfund \in [Attempts -> FundStates]
      /\ attempts \in 0..MaxAttempts /\ MaxAttempts \in Nat /\ \A j \in Attempts : AttemptInv(j)
    BY PaymentsAssumption DEF PaymentsInv, JournalTypes, AttemptsInv
<1>1. PICK o \in Answers : \E i \in {attempts, attempts + 1} :
         /\ i \in Attempts /\ CreateIntent(i, m, o) /\ (pfund[i] # "NONE" => fund[i].method = m) /\ ptr' = ptr
  <2>1. PICK o \in Answers :
         \/ OpenAttempt /\ fund[attempts].method = m /\ CreateIntent(attempts, m, o)
         \/ ~OpenAttempt /\ attempts < MaxAttempts /\ CreateIntent(attempts + 1, m, o)
      BY DEF EnsureFundingIntent
  <2>2. ptr' = ptr
      BY DEF EnsureFundingIntent
  <2>3. CASE OpenAttempt /\ fund[attempts].method = m /\ CreateIntent(attempts, m, o)
    <3>1. attempts \in Attempts
        BY <1>0, <2>3 DEF OpenAttempt, Attempts
    <3> QED
        BY <2>2, <2>3, <3>1
  <2>4. CASE ~OpenAttempt /\ attempts < MaxAttempts /\ CreateIntent(attempts + 1, m, o)
    <3>1. attempts + 1 \in Attempts /\ attempts + 1 > attempts
        BY <1>0, <2>4 DEF Attempts
    <3>2. pfund[attempts + 1] = "NONE"
        BY <1>0, <3>1 DEF AttemptInv
    <3> QED
        BY <2>2, <2>4, <3>1, <3>2
  <2> QED
      BY <2>1, <2>3, <2>4
<1>2. PICK i \in Attempts : CreateIntent(i, m, o) /\ (pfund[i] # "NONE" => fund[i].method = m)
    BY <1>1
<1> DEFINE op == IF pfund[i] # "NONE" THEN "SUCCEEDED" ELSE StatusOf(o)
<1>3. fund' = [fund EXCEPT ![i].op = op, ![i].method = m]
    BY <1>2 DEF CreateIntent
<1> HIDE DEF op
<1>4. fund'[i].method = m /\ \A j \in Attempts : j # i => fund'[j] = fund[j]
    BY <1>0, <1>3 DEF FundRows
<1>5. \/ pfund' = pfund
      \/ pfund[i] = "NONE" /\ pfund' = [pfund EXCEPT ![i] = "REQUIRES_ACTION"]
    BY <1>2 DEF CreateIntent
<1>6. AttemptsMove
    BY <1>0, <1>2, <1>4, <1>5 DEF AttemptsMove
<1> QED
    BY <1>0, <1>1, <1>6, AttemptCharges

LEMMA SwitchCharges ==
    ASSUME PaymentsInv, PaymentsInv', NEW m \in Methods, SwitchMethod(m)
    PROVE  ChargesStep
<1> DEFINE a == attempts
           b == attempts + 1
           cancels == ToCancel # 0 /\ ~pcancel[attempts]
<1>0. /\ fund \in [Attempts -> FundRows] /\ fund' \in [Attempts -> FundRows] /\ pfund \in [Attempts -> FundStates]
      /\ JournalTypes /\ MaxAttempts \in Nat /\ \A i \in Attempts : AttemptInv(i)
    BY PaymentsAssumption DEF PaymentsInv, JournalTypes, AttemptsInv
<1>1. OpenAttempt /\ attempts < MaxAttempts /\ (ToCancel # 0 => Cancellable(attempts)) /\ ptr' = ptr
    BY DEF SwitchMethod
<1>2. a \in Attempts /\ b \in Attempts /\ a # b /\ b > attempts
    BY <1>0, <1>1 DEF JournalTypes, Attempts, OpenAttempt
<1>3. PICK o \in Answers :
        /\ fund' = [fund EXCEPT ![a].fact = IF ToCancel # 0 THEN "CANCELED" ELSE @,
                                ![b] = [op |-> StatusOf(o), fact |-> "NONE", method |-> m]]
        /\ pfund' = [pfund EXCEPT ![a] = IF cancels THEN "CANCELED" ELSE @,
                                  ![b] = IF Reaches(o) THEN "REQUIRES_ACTION" ELSE @]
    BY DEF SwitchMethod
<1>4. pfund[b] = "NONE"
    BY <1>0, <1>2 DEF AttemptInv
<1>5. cancels => \/ pfund[a] \in {"REQUIRES_ACTION", "CANCELED"} \/ (pfund[a] = "PROCESSING" /\ fund[a].method = "CARD")
    BY <1>1 DEF Cancellable
<1> HIDE DEF cancels, a, b
<1>6. /\ pfund'[a] = IF cancels THEN "CANCELED" ELSE pfund[a]
      /\ pfund'[b] \in {"NONE", "REQUIRES_ACTION"}
      /\ \A i \in Attempts : i # a /\ i # b => pfund'[i] = pfund[i]
    BY <1>0, <1>2, <1>3, <1>4
<1>7. fund'[a].method = fund[a].method /\ \A i \in Attempts : i # a /\ i # b => fund'[i] = fund[i]
    BY <1>0, <1>2, <1>3 DEF FundRows
<1>8. AttemptsMove
    BY <1>4, <1>5, <1>6, <1>7 DEF AttemptsMove, StatusMoves
<1> QED
    BY <1>0, <1>1, <1>8, AttemptCharges

LEMMA CancelCharges ==
    ASSUME PaymentsInv, PaymentsInv', CancelUnpaid \/ ExpireHold
    PROVE  ChargesStep
<1>0. /\ fund \in [Attempts -> FundRows] /\ fund' \in [Attempts -> FundRows] /\ pfund \in [Attempts -> FundStates]
      /\ JournalTypes
    BY DEF PaymentsInv, JournalTypes
<1>1. ptr' = ptr
    BY DEF CancelUnpaid, ExpireHold
<1>2. \/ CancelOpenFunding
      \/ CancelCallLost /\ fund' = fund
      \/ UNCHANGED <<fund, pfund>>
    BY DEF CancelUnpaid, ExpireHold, CancelRefused
<1>3. CASE UNCHANGED <<fund, pfund>>
    BY <1>1, <1>3, NothingCharged
<1>4. ASSUME NEW c \in Attempts, Cancellable(c), CancelAtProvider(c), \A i \in Attempts : fund'[i].method = fund[i].method
      PROVE  ChargesStep
  <2>1. pfund' = IF pcancel[c] THEN pfund ELSE [pfund EXCEPT ![c] = "CANCELED"]
      BY <1>4 DEF CancelAtProvider
  <2>2. AttemptsMove
      BY <1>0, <1>4, <2>1 DEF AttemptsMove, StatusMoves, Cancellable
  <2> QED
      BY <1>0, <1>1, <2>2, AttemptCharges
<1>5. ToCancel # 0 => ToCancel \in Attempts
    BY <1>0, ToCancelOpen
<1>6. CASE CancelCallLost /\ fund' = fund
    BY <1>4, <1>5, <1>6 DEF CancelCallLost
<1>7. CASE CancelOpenFunding
  <2>1. CASE ToCancel # 0 /\ Cancellable(ToCancel) /\ CancelAtProvider(ToCancel) /\ fund' = [fund EXCEPT ![ToCancel].fact = "CANCELED"]
    <3>1. \A i \in Attempts : fund'[i].method = fund[i].method
        BY <1>0, <1>5, <2>1 DEF FundRows
    <3> QED
        BY <1>4, <1>5, <2>1, <3>1
  <2> QED
      BY <1>3, <1>7, <2>1 DEF CancelOpenFunding
<1> QED
    BY <1>2, <1>3, <1>6, <1>7

\* The provider's own moves.
LEMMA ProviderCharges ==
    ASSUME PaymentsInv, PaymentsInv', Provider
    PROVE  ChargesStep
<1>0. /\ fund \in [Attempts -> FundRows] /\ fund' \in [Attempts -> FundRows] /\ pfund \in [Attempts -> FundStates]
    BY DEF PaymentsInv, JournalTypes
<1>1. fund' = fund
    BY DEF Provider, LateCapture, BankReturn, FundingOutcome, SettleTransfer, OpenChargeback, DecideChargeback, ProviderStep, journal
<1>2. ASSUME NEW i \in Attempts, NEW new, pfund' = [pfund EXCEPT ![i] = new], StatusMoves(pfund[i], new, fund[i].method), ptr' = ptr
      PROVE  ChargesStep
  <2>1. AttemptsMove
      BY <1>0, <1>1, <1>2 DEF AttemptsMove
  <2> QED
      BY <1>0, <1>2, <2>1, AttemptCharges
<1>3. ASSUME NEW i \in Attempts, LateCapture(i) \/ BankReturn(i) PROVE ChargesStep
    BY <1>2, <1>3 DEF LateCapture, BankReturn, ProviderStep, StatusMoves
<1>4. ASSUME NEW i \in Attempts, NEW new \in {"PROCESSING", "SUCCEEDED", "FAILED"}, FundingOutcome(i, new) PROVE ChargesStep
  <2>1. StatusMoves(pfund[i], new, fund[i].method)
      BY <1>4 DEF FundingOutcome, FundingOutcomes, StatusMoves
  <2> QED
      BY <1>2, <1>4, <2>1 DEF FundingOutcome, ProviderStep
<1>5. CASE UNCHANGED <<pfund, ptr>>
    BY <1>1, <1>5, NothingCharged
<1>6. CASE OpenChargeback \/ \E new \in {"WON", "LOST"} : DecideChargeback(new)
    BY <1>5, <1>6 DEF OpenChargeback, DecideChargeback, ProviderStep
<1> QED
    BY <1>3, <1>4, <1>6, SettleCharges DEF Provider

LEMMA PaymentsNextCharges == PaymentsInv /\ [Next]_vars => ChargesStep
<1> SUFFICES ASSUME PaymentsInv, [Next]_vars PROVE ChargesStep
    OBVIOUS
<1>0. PaymentsInv' /\ fund \in [Attempts -> FundRows]
    BY PaymentsNextKeeps DEF PaymentsInv, JournalTypes
<1>1. CASE UNCHANGED <<fund, pfund, ptr>>
    BY <1>0, <1>1, NothingCharged
<1>2. ASSUME NEW t \in Transfers, NEW req, NEW commits, Request(t, req, commits), UNCHANGED <<fund, pfund>> PROVE ChargesStep
    BY <1>0, <1>2, RequestCharges
<1>3. "refund" \in Transfers /\ "release" \in Transfers
    BY DEF Transfers
<1>4. ASSUME NEW due, NEW reason, RefundOrCase(due, reason), UNCHANGED <<fund, pfund>> PROVE ChargesStep
    BY <1>1, <1>2, <1>3, <1>4 DEF RefundOrCase
<1>5. CASE RequestRelease
    BY <1>2, <1>3, <1>5 DEF RequestRelease
<1>6. CASE Commands
  <2>1. CASE CancelFunded
      BY <1>4, <2>1 DEF CancelFunded
  <2>2. CASE Start \/ Approve
      BY <1>1, <2>2 DEF Start, Approve
  <2>3. ASSUME NEW refund \in 0..Amount, AcceptCancellation(refund) PROVE ChargesStep
    <3>1. UNCHANGED <<fund, pfund>> /\ (RefundOrCase(refund, "MUTUAL_CANCELLATION") \/ ptr' = ptr)
        BY <2>3 DEF AcceptCancellation
    <3> QED
        BY <1>1, <1>4, <3>1
  <2>4. ASSUME NEW refund \in 1..Amount, ResolveRefund(refund) PROVE ChargesStep
      BY <1>4, <2>4 DEF ResolveRefund
  <2>5. CASE RefundLateFunding \/ \E reason \in {"BUYER_CANCELED_BEFORE_WORK", "MUTUAL_CANCELLATION", "OPERATOR_RESOLUTION"} : RetryRefund(reason)
      BY <1>2, <1>3, <2>5 DEF RefundLateFunding, RetryRefund
  <2> QED
      BY <1>0, <1>6, <2>1, <2>2, <2>3, <2>4, <2>5, EnsureCharges, SwitchCharges, CancelCharges DEF Commands
<1>7. CASE Jobs
  <2>1. CASE ResolveFunding
    <3>1. UNCHANGED <<pfund, ptr>> /\ \A i \in Attempts : fund'[i].method = fund[i].method
      <4>1. PICK op : fund' = [fund EXCEPT ![lookup.fund].op = op]
          BY <2>1 DEF ResolveFunding
      <4> QED
          BY <1>0, <2>1, <4>1 DEF ResolveFunding, provider, FundRows
    <3> QED
        BY <1>0, <3>1, NothingCharged
  <2>2. CASE RetryPendingRefund
      BY <1>2, <1>3, <2>2 DEF RetryPendingRefund
  <2>3. CASE (\E i \in Attempts : LookupFunding(i) \/ FetchFunding(i)) \/ \E t \in Transfers : ResolveTransfer(t) \/ FetchTransfer(t)
      BY <1>1, <2>3 DEF LookupFunding, FetchFunding, ResolveTransfer, FetchTransfer, provider, journal
  <2>4. CASE ReleaseReadySettlements \/ RetryPendingRelease
      BY <1>5, <2>4 DEF ReleaseReadySettlements, RetryPendingRelease
  <2> QED
      BY <1>0, <1>7, <2>1, <2>2, <2>3, <2>4, CancelCharges DEF Jobs, Reconcile
<1>8. CASE Provider
    BY <1>0, <1>8, ProviderCharges
<1>9. CASE Delivery
  <2>1. ASSUME NEW e \in sent, ProcessEvent(e) PROVE ChargesStep
    <3>1. UNCHANGED <<pfund, ptr>>
        BY <2>1 DEF ProcessEvent, provider
    <3>2. fund' = fund \/ fund' = [fund EXCEPT ![e.id].fact = Fact(@, e.status)]
        BY <2>1 DEF ProcessEvent, ApplyFundingEvent, ApplyRefundEvent, ApplyReleaseEvent, ApplyDisputeEvent
    <3>3. \A i \in Attempts : fund'[i].method = fund[i].method
        BY <1>0, <3>2 DEF FundRows
    <3> QED
        BY <1>0, <3>1, <3>3, NothingCharged
  <2>2. ASSUME NEW e \in sent, LoseEvent(e) PROVE ChargesStep
      BY <1>1, <2>2 DEF LoseEvent, provider, journal
  <2> QED
      BY <1>9, <2>1, <2>2 DEF Delivery
<1>10. CASE UNCHANGED vars
    BY <1>1, <1>10 DEF vars, journal, provider
<1> QED
    BY <1>6, <1>7, <1>8, <1>9, <1>10 DEF Next

\* The provider as the rail sees it keeps the contract of Charges: what Payments assumes of the provider is what
\* CardProvider, the ledger of payments/providers.ts, is shown to keep.
THEOREM PaymentsKeepCharges == Spec => ChargesKept
<1> DEFINE all == [i \in Attempts |-> ChargeOf(i)]
<1>1. Init => Contract!Init
  <2> SUFFICES ASSUME Init PROVE all = [i \in Attempts |-> NoChargeRow]
      BY DEF Contract!Init, Contract!NoCharge, NoChargeRow, ChargeRow
  <2>1. \A t \in Transfers, i \in Attempts, s \in {"PENDING", "SUCCEEDED"} : Out(ptr, t, i, s) = 0
      BY DEF Init, Out, NoTransfer
  <2>2. \A i \in Attempts, s \in {"PENDING", "SUCCEEDED"} : OutOf(ptr, i, s) = 0
      BY <2>1 DEF OutOf, Transfers
  <2>3. \A i \in Attempts : ChargeOf(i) = NoChargeRow
    <3> TAKE i \in Attempts
    <3>1. pfund[i] = "NONE" /\ OutOf(ptr, i, "PENDING") = 0 /\ OutOf(ptr, i, "SUCCEEDED") = 0
        BY <2>2 DEF Init
    <3> QED
        BY <3>1, ChargesAre DEF ChargeAt, AttemptCharge, NoChargeRow
  <2> QED
      BY <2>3
<1>2. PaymentsInv /\ [Next]_vars => [Contract!Next]_all
  <2> SUFFICES ASSUME PaymentsInv, [Next]_vars PROVE Contract!Next
      OBVIOUS
  <2>1. ChargesStep
      BY PaymentsNextCharges
  <2>2. \A i \in Attempts : [j \in Attempts |-> ChargeOf(j)][i] = ChargeAt(i) /\ [j \in Attempts |-> ChargeOf(j)]'[i] = ChargeAt(i)'
      BY ChargesAre
  <2> QED
      BY <2>1, <2>2, Zenon DEF ChargesStep, Contract!Next
<1> QED
    BY <1>1, <1>2, PaymentsInvariance, PTL DEF Spec, ChargesKept, Contract!Spec
=============================================================================
