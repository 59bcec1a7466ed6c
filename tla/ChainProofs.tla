---------------------------- MODULE ChainProofs ----------------------------
(***************************************************************************)
(* Proofs about SpacaEscrow, ChainPayouts and ChainDeposits, for any       *)
(* payouts, amounts, buckets, workers and faults, and for any deposits,    *)
(* intents and finality depth.                                             *)
(***************************************************************************)
EXTENDS ChainPayouts, ChainDeposits, TotalsTheorems

Auths == Payouts \X Nat
AuthSets == {A \in SUBSET Auths : IsFiniteSet(A)}
BucketRecords == [deposited : Nat, released : Nat, refunded : Nat, frozen : BOOLEAN]
Transactions == [auths : AuthSets, result : {"PENDING", "OK", "REVERTED"}]

\* The contract's state and the transactions on their way to it.
EscrowTypes ==
    /\ bucket \in [Buckets -> BucketRecords]
    /\ payoutUsed \in SUBSET Payouts /\ txs \in SUBSET Transactions

\* What a reference has transferred follows from whether it was used; no bucket is overdrawn.
EscrowInv ==
    /\ EscrowTypes
    /\ paidOut = [p \in Payouts |-> IF p \in payoutUsed THEN AmountOf[p] ELSE 0]
    /\ \A b \in Buckets : Remaining(b) >= 0

PayoutStates == {"NONE", "QUEUED", "RETRY", "UNKNOWN", "SUBMITTING", "CONFIRMED", "FAILED"}
Rows == [state : PayoutStates, attempts : Nat]
Holdings == [phase : {"idle", "sign", "submit", "wait", "finish"}, ids : SUBSET Payouts, auths : AuthSets,
             outcome : {"NONE", "CONFIRMED", "UNKNOWN", "RETRY", "FAILED"}]

OutboxTypes == payoutRow \in [Payouts -> Rows] /\ worker \in [Workers -> Holdings]

\* What a worker holds: rows that were queued, an authorisation for each, and CONFIRMED only for what the contract paid.
HoldingOK(x) ==
    /\ \A p \in x.ids : payoutRow[p].state # "NONE"
    /\ x.phase \in {"submit", "wait"} => \A p \in x.ids : \E a \in x.auths : a[1] = p
    /\ x.phase = "finish" => x.outcome # "NONE"
    /\ x.phase = "finish" /\ x.outcome = "CONFIRMED" => \A p \in x.ids : Kind[p] \notin Freezes => p \in payoutUsed

MinedIsUsed == \A t \in txs : t.result = "OK" => \A a \in t.auths : Kind[a[1]] \notin Freezes => a[1] \in payoutUsed
RowsArePaid == \A p \in Payouts : payoutRow[p].state = "CONFIRMED" /\ Kind[p] \notin Freezes => p \in payoutUsed

WorkerInv == MinedIsUsed /\ RowsArePaid /\ \A w \in Workers : HoldingOK(worker[w])

\* What the refund of the order amounts to, and what is left for its creator.
RefundAmount == IF refundDue = NoAmount THEN Amount ELSE refundDue
ReleaseAmount == IF refundDue = NoAmount THEN Amount ELSE Amount - refundDue

OrderTypes ==
    /\ stage \in {"AWAITING_PAYMENT", "FUNDED", "WORKING", "APPROVED", "COMPLETED", "CANCELLED", "REFUNDED"}
    /\ payment \in {"PENDING", "SUCCEEDED", "REFUND_PENDING", "REFUNDED", "PARTIALLY_REFUNDED"}
    /\ settlement \in {"NOT_READY", "READY", "PENDING", "RELEASED", "FAILED"}
    /\ dispute \in {"NONE", "OPEN", "RESOLVED"} /\ refundDue \in {NoAmount} \cup 1..(Amount - 1)

\* The money columns of each stage.
StageInv ==
    /\ dispute = "OPEN" => stage = "WORKING"
    /\ stage \in {"AWAITING_PAYMENT", "FUNDED", "WORKING"} => settlement = "NOT_READY" /\ refundDue = NoAmount
    /\ stage = "AWAITING_PAYMENT" => payment = "PENDING"
    /\ stage \in {"FUNDED", "WORKING", "APPROVED", "COMPLETED"} => payment = "SUCCEEDED" /\ refundDue = NoAmount
    /\ stage = "CANCELLED" => payment \in {"REFUND_PENDING", "PARTIALLY_REFUNDED"}
    /\ stage \in {"CANCELLED", "REFUNDED"} /\ refundDue = NoAmount => settlement = "NOT_READY"
    /\ stage = "REFUNDED" => payment = "REFUNDED" /\ refundDue = NoAmount

\* A release or a refund row is queued once, for the amount the order owes, and the order waits for it until it is final.
RowsFitOrder ==
    \A p \in Payouts : payoutRow[p].state # "NONE" =>
       /\ Kind[p] = "ORDER_RELEASE" =>
             /\ AmountOf[p] = ReleaseAmount /\ stage \in {"APPROVED", "COMPLETED", "CANCELLED"}
             /\ settlement \notin {"NOT_READY", "READY"}
             /\ payoutRow[p].state \notin Final => settlement = "PENDING"
       /\ Kind[p] = "ORDER_REFUND" =>
             /\ AmountOf[p] = RefundAmount /\ stage \in {"CANCELLED", "REFUNDED"}
             /\ payoutRow[p].state \notin Final => payment = "REFUND_PENDING"

OrderInv == OrderTypes /\ StageInv /\ RowsFitOrder /\ ConfirmedIsPaid

-----------------------------------------------------------------------------
(* What a transaction spends *)

\* What the authorisations of one transaction take from a bucket is a natural number.
LEMMA SpentNat ==
    ASSUME NEW auths \in AuthSets, NEW b, NEW kinds
    PROVE  Spent(auths, b, kinds) \in Nat
<1> DEFINE S == {a \in auths : BucketOf[a[1]] = b /\ Kind[a[1]] \in kinds}
           f == [a \in auths |-> AmountOf[a[1]]]
<1>1. IsFiniteSet(S)
    BY FS_Subset DEF AuthSets
<1>2. \A a \in S : f[a] \in Nat
    BY EscrowAssumption DEF AuthSets, Auths
<1>3. Amounts(f, S)
    BY <1>1, <1>2 DEF Amounts
<1>4. Total(f, S) \in Nat
    BY <1>3, TotalNat
<1> QED
    BY <1>4 DEF Spent

\* A batch spends what it releases and what it refunds: freezes carry no amount.
LEMMA SpentSplit ==
    ASSUME NEW auths \in AuthSets, NEW b
    PROVE  Spent(auths, b, PayoutKinds) = Spent(auths, b, Releases) + Spent(auths, b, Refunds)
<1> DEFINE f == [a \in auths |-> AmountOf[a[1]]]
           S(kinds) == {a \in auths : BucketOf[a[1]] = b /\ Kind[a[1]] \in kinds}
<1>1. \A kinds : Amounts(f, S(kinds))
  <2>1. \A kinds : IsFiniteSet(S(kinds))
      BY FS_Subset DEF AuthSets
  <2>2. \A a \in auths : f[a] \in Nat
      BY EscrowAssumption DEF AuthSets, Auths
  <2> QED
      BY <2>1, <2>2 DEF Amounts
<1>2. Amounts(f, S(Releases)) /\ Amounts(f, S(Refunds)) /\ Amounts(f, S(Freezes))
    BY <1>1
<1>3. S(Releases) \cap S(Refunds) = {}
    BY DEF Releases, Refunds
<1>4. S(PayoutKinds) = (S(Releases) \cup S(Refunds)) \cup S(Freezes)
    BY DEF PayoutKinds, Releases, Refunds, Freezes
<1>5. (S(Releases) \cup S(Refunds)) \cap S(Freezes) = {}
    BY DEF Releases, Refunds, Freezes
<1>6. \A a \in S(Freezes) : f[a] = 0
    BY EscrowAssumption DEF AuthSets, Auths
<1>7. Amounts(f, S(Releases) \cup S(Refunds))
    BY <1>2, FS_Union DEF Amounts
<1> HIDE DEF f, S
<1>8. Total(f, S(Releases) \cup S(Refunds)) = Total(f, S(Releases)) + Total(f, S(Refunds))
    BY <1>2, <1>3, TotalUnion
<1>9. Total(f, S(PayoutKinds)) = Total(f, S(Releases) \cup S(Refunds)) + Total(f, S(Freezes))
    BY <1>2, <1>4, <1>5, <1>7, TotalUnion
<1>10. Total(f, S(Freezes)) = 0
    BY <1>6, TotalZero
<1>11. Total(f, S(Releases)) \in Nat /\ Total(f, S(Refunds)) \in Nat
    BY <1>2, TotalNat
<1>12. Total(f, S(PayoutKinds)) = Total(f, S(Releases)) + Total(f, S(Refunds))
    BY <1>8, <1>9, <1>10, <1>11
<1> QED
    BY <1>12 DEF Spent, f, S

-----------------------------------------------------------------------------
(* One transaction of the contract *)

\* A reference that passes the contract's checks was not paid before.
LEMMA FreshReference ==
    ASSUME NEW a, Revert(a) = "NONE"
    PROVE  a[1] \notin payoutUsed
    BY DEF Revert

\* release, releaseBatch, refund and setFrozen keep the contract's invariant.
LEMMA ApplyKeeps ==
    ASSUME EscrowInv, NEW auths \in AuthSets, Executes(auths), Apply(auths)
    PROVE  /\ bucket' \in [Buckets -> BucketRecords] /\ payoutUsed' \in SUBSET Payouts
           /\ paidOut' = [p \in Payouts |-> IF p \in payoutUsed' THEN AmountOf[p] ELSE 0]
           /\ \A b \in Buckets : Remaining(b)' >= 0
           /\ \A a \in auths : Kind[a[1]] \notin Freezes => a[1] \in payoutUsed'
<1>1. \A b \in Buckets : /\ Spent(auths, b, Releases) \in Nat /\ Spent(auths, b, Refunds) \in Nat
                         /\ Spent(auths, b, Releases) + Spent(auths, b, Refunds) <= Remaining(b)
    BY SpentNat, SpentSplit DEF Executes
<1>2. bucket' \in [Buckets -> BucketRecords]
  <2>1. \A b \in Buckets : bucket[b] \in BucketRecords
      BY DEF EscrowInv, EscrowTypes
  <2>2. ASSUME NEW b \in Buckets
        PROVE  bucket'[b] \in BucketRecords
    <3> DEFINE Frozen == IF \E a \in auths \ {x \in auths : Kind[x[1]] \notin Freezes} : BucketOf[a[1]] = b
                         THEN \E a \in auths : BucketOf[a[1]] = b /\ Kind[a[1]] = "FREEZE" ELSE bucket[b].frozen
    <3>1. bucket'[b] = [deposited |-> bucket[b].deposited, released |-> bucket[b].released + Spent(auths, b, Releases),
                        refunded |-> bucket[b].refunded + Spent(auths, b, Refunds), frozen |-> Frozen]
        BY DEF Apply
    <3>2. Frozen \in BOOLEAN
        BY <2>1 DEF BucketRecords
    <3> HIDE DEF Frozen
    <3> QED
        BY <1>1, <2>1, <3>1, <3>2 DEF BucketRecords
  <2>3. bucket' = [b \in Buckets |-> bucket'[b]]
      BY DEF Apply
  <2> QED
      BY <2>2, <2>3
<1>3. ASSUME NEW b \in Buckets
      PROVE  Remaining(b)' >= 0
  <2>1. /\ bucket'[b].deposited = bucket[b].deposited
        /\ bucket'[b].released = bucket[b].released + Spent(auths, b, Releases)
        /\ bucket'[b].refunded = bucket[b].refunded + Spent(auths, b, Refunds)
      BY DEF Apply, EscrowInv, EscrowTypes, BucketRecords
  <2>2. bucket[b] \in BucketRecords
      BY DEF EscrowInv, EscrowTypes
  <2> QED
      BY <1>1, <2>1, <2>2 DEF Remaining, BucketRecords
<1>4. payoutUsed' = payoutUsed \cup {a[1] : a \in {x \in auths : Kind[x[1]] \notin Freezes}}
    BY DEF Apply
<1>5. payoutUsed' \in SUBSET Payouts
    BY <1>4 DEF EscrowInv, EscrowTypes, AuthSets, Auths
<1>6. ASSUME NEW p \in Payouts
      PROVE  paidOut'[p] = IF p \in payoutUsed' THEN AmountOf[p] ELSE 0
  <2>1. paidOut'[p] = paidOut[p] + IF \E a \in {x \in auths : Kind[x[1]] \notin Freezes} : a[1] = p THEN AmountOf[p] ELSE 0
      BY DEF Apply
  <2>2. AmountOf[p] \in Nat /\ paidOut[p] = IF p \in payoutUsed THEN AmountOf[p] ELSE 0
      BY EscrowAssumption DEF EscrowInv
  <2>3. (\E a \in auths : a[1] = p) => p \notin payoutUsed
      BY FreshReference DEF Executes
  <2> QED
      BY <1>4, <2>1, <2>2, <2>3
<1>7. paidOut' = [p \in Payouts |-> paidOut'[p]]
    BY DEF Apply
<1> QED
    BY <1>2, <1>3, <1>4, <1>5, <1>6, <1>7

\* A transaction that is mined, whether it takes effect or reverts.
LEMMA MineKeeps ==
    ASSUME EscrowInv, NEW t \in txs, Mine(t)
    PROVE  EscrowInv'
<1>0. t \in Transactions /\ t.auths \in AuthSets /\ bucket \in [Buckets -> BucketRecords] /\ payoutUsed \in SUBSET Payouts
    BY DEF EscrowInv, EscrowTypes, Transactions
<1>1. txs' \in SUBSET Transactions
    BY <1>0 DEF Mine, EscrowInv, EscrowTypes, Transactions
<1>2. CASE Executes(t.auths)
  <2>1. Apply(t.auths)
      BY <1>2 DEF Mine
  <2> QED
      BY <1>0, <1>1, <1>2, <2>1, ApplyKeeps DEF EscrowInv, EscrowTypes
<1>3. CASE ~Executes(t.auths)
  <2>1. UNCHANGED <<bucket, payoutUsed, paidOut>>
      BY <1>3 DEF Mine
  <2> QED
      BY <1>1, <2>1 DEF EscrowInv, EscrowTypes, Remaining
<1> QED
    BY <1>2, <1>3

\* fund opens a bucket that holds nothing yet.
LEMMA FundKeeps ==
    ASSUME EscrowInv, NEW b \in Buckets, FundBucket(b)
    PROVE  EscrowInv'
<1>1. Deposit \in Nat /\ bucket \in [Buckets -> BucketRecords]
    BY EscrowAssumption DEF EscrowInv, EscrowTypes
<1>2. bucket' = [bucket EXCEPT ![b].deposited = Deposit] /\ bucket[b].deposited = 0
    BY DEF FundBucket
<1>3. bucket' \in [Buckets -> BucketRecords]
    BY <1>1, <1>2 DEF BucketRecords
<1>4. \A c \in Buckets : Remaining(c)' >= 0
    BY <1>1, <1>2 DEF Remaining, BucketRecords, EscrowInv
<1> QED
    BY <1>3, <1>4 DEF EscrowInv, EscrowTypes, FundBucket

\* reclaim, the guardian's freeze, pause and a new signer.
LEMMA IncidentKeeps ==
    ASSUME EscrowInv, Incidents
    PROVE  EscrowInv'
<1>1. bucket \in [Buckets -> BucketRecords] /\ \A c \in Buckets : Remaining(c) >= 0
    BY DEF EscrowInv, EscrowTypes
<1>2. ASSUME NEW b \in Buckets, Reclaim(b)
      PROVE  EscrowInv'
  <2>1. bucket' = [bucket EXCEPT ![b].refunded = @ + Remaining(b)] /\ Remaining(b) \in Nat
      BY <1>1, <1>2 DEF Reclaim, Remaining, BucketRecords
  <2>2. bucket' \in [Buckets -> BucketRecords]
      BY <1>1, <2>1 DEF BucketRecords
  <2>3. \A c \in Buckets : Remaining(c)' >= 0
      BY <1>1, <2>1 DEF Remaining, BucketRecords
  <2> QED
      BY <1>2, <2>2, <2>3 DEF EscrowInv, EscrowTypes, Reclaim
<1>3. ASSUME NEW b \in Buckets, GuardianFreeze(b)
      PROVE  EscrowInv'
  <2>1. bucket' = [bucket EXCEPT ![b].frozen = TRUE]
      BY <1>3 DEF GuardianFreeze
  <2>2. bucket' \in [Buckets -> BucketRecords]
      BY <1>1, <2>1 DEF BucketRecords
  <2>3. \A c \in Buckets : Remaining(c)' = Remaining(c)
      BY <1>1, <2>1 DEF Remaining, BucketRecords
  <2> QED
      BY <1>1, <1>3, <2>2, <2>3 DEF EscrowInv, EscrowTypes, GuardianFreeze
<1>4. CASE SetPaused \/ SetReleaseSigner
    BY <1>4 DEF SetPaused, SetReleaseSigner, EscrowInv, EscrowTypes, Remaining
<1> QED
    BY <1>2, <1>3, <1>4 DEF Incidents

-----------------------------------------------------------------------------
(* Steps of the rail *)

PayoutInv == EscrowInv /\ OutboxTypes /\ WorkerInv

\* The order's bucket is one of the contract's, and the freeze and the unfreeze are payouts.
LEMMA OrderBucketKnown == OrderBucket \in Buckets /\ \A kind \in Freezes : Of(kind) \in Payouts /\ Kind[Of(kind)] = kind
<1>1. \A kind \in Freezes : Of(kind) \in Payouts /\ Kind[Of(kind)] = kind
    BY PayoutsAssumption DEF Of
<1> QED
    BY <1>1 DEF OrderBucket, Buckets, Freezes

\* One authorisation per payout: finitely many.
LEMMA AuthorizationsFinite ==
    ASSUME OutboxTypes, NEW ids \in SUBSET Payouts
    PROVE  {Authorization(p) : p \in ids} \in AuthSets
<1> DEFINE T == {Authorization(p) : p \in ids}
           h == [p \in ids |-> Authorization(p)]
<1>1. h \in Surjection(ids, T)
    BY DEF Surjection
<1>2. IsFiniteSet(ids)
    BY EscrowAssumption, FS_Subset
<1>3. IsFiniteSet(T)
    BY <1>1, <1>2, FS_Surjection
<1>4. \A p \in ids : Authorization(p) \in Auths
    BY DEF Authorization, NewNonce, OutboxTypes, Rows, Auths
<1> QED
    BY <1>3, <1>4 DEF AuthSets

\* Only the contract's own transactions, a deposit, an incident and submissions touch the contract's state.
LEMMA EscrowStep == PayoutInv /\ [PayoutNext]_payoutVars => EscrowInv'
<1> SUFFICES ASSUME PayoutInv, [PayoutNext]_payoutVars
             PROVE  EscrowInv'
    OBVIOUS
<1>0. EscrowInv /\ txs \in SUBSET Transactions
    BY DEF PayoutInv, EscrowInv, EscrowTypes
<1>1. ASSUME UNCHANGED escrowVars
      PROVE  EscrowInv'
    BY <1>0, <1>1 DEF escrowVars, EscrowInv, EscrowTypes, Remaining
<1>2. ASSUME txs' \in SUBSET Transactions, UNCHANGED <<bucket, payoutUsed, paidOut>>
      PROVE  EscrowInv'
    BY <1>0, <1>2 DEF EscrowInv, EscrowTypes, Remaining
<1>3. CASE CreditDeposit
    BY <1>0, <1>3, OrderBucketKnown, FundKeeps DEF CreditDeposit
<1>4. ASSUME NEW p \in Payouts, QueueAllocation(p)
      PROVE  EscrowInv'
    BY <1>0, <1>4, FundKeeps DEF QueueAllocation, Buckets
<1>5. CASE Mined
    BY <1>0, <1>5, MineKeeps DEF Mined
<1>6. CASE Dropped
    BY <1>0, <1>2, <1>6 DEF Dropped, Drop
<1>7. CASE IncidentNext
    BY <1>0, <1>7, IncidentKeeps DEF IncidentNext
<1>8. ASSUME NEW w \in Workers, Submit(w) \/ SubmitUnavailable(w)
      PROVE  EscrowInv'
  <2>1. [auths |-> worker[w].auths, result |-> "PENDING"] \in Transactions
      BY DEF PayoutInv, OutboxTypes, Holdings, Transactions
  <2>2. txs' \in SUBSET Transactions /\ UNCHANGED <<bucket, payoutUsed, paidOut>>
      BY <1>0, <1>8, <2>1 DEF Submit, SubmitUnavailable
  <2> QED
      BY <1>2, <2>2
<1>9. ASSUME NEW w \in Workers, Receipt(w)
      PROVE  EscrowInv'
    BY <1>0, <1>2, <1>9 DEF Receipt
<1>10. CASE StartWork \/ CancelOrder \/ ApproveOrder \/ OpenDispute \/ QueueRelease
            \/ (\E d \in {"RESUME", "APPROVE"} : ResolveDispute(d, 0)) \/ (\E r \in 1..Amount : ResolveDispute("REFUND", r))
    BY <1>1, <1>10 DEF StartWork, CancelOrder, ApproveOrder, OpenDispute, QueueRelease, ResolveDispute
<1>11. ASSUME NEW w \in Workers,
              \/ Sign(w) \/ Unconfirmed(w) \/ Crash(w)
              \/ \E p \in Payouts : Prepare(w, p) \/ Finish(w, p) \/ NotDispatched(w, p) \/ LookupUnavailable(w, p)
              \/ \E ids \in SUBSET Payouts : PrepareBatch(w, ids)
       PROVE  EscrowInv'
  <2>1. UNCHANGED escrowVars
      BY <1>11 DEF Sign, Unconfirmed, Crash, Prepare, Finish, NotDispatched, LookupUnavailable, PrepareBatch
  <2> QED
      BY <1>1, <2>1
<1>12. CASE UNCHANGED payoutVars
    BY <1>1, <1>12 DEF payoutVars
<1> QED
    BY <1>3, <1>4, <1>5, <1>6, <1>7, <1>8, <1>9, <1>10, <1>11, <1>12
    DEF PayoutNext, OrderNext, WorkerNext, Dispatch

\* A reference once used stays used.
LEMMA UsedStays == PayoutInv /\ [PayoutNext]_payoutVars => payoutUsed \subseteq payoutUsed'
<1> SUFFICES ASSUME PayoutInv, [PayoutNext]_payoutVars
             PROVE  payoutUsed \subseteq payoutUsed'
    OBVIOUS
<1>1. CASE Mined
    BY <1>1 DEF Mined, Mine, Apply
<1>2. CASE OrderNext \/ Dropped \/ IncidentNext \/ (\E w \in Workers : WorkerNext(w)) \/ UNCHANGED payoutVars
  <2>1. UNCHANGED payoutUsed
      BY <1>2
      DEF OrderNext, CreditDeposit, FundBucket, StartWork, CancelOrder, ApproveOrder, OpenDispute, QueueRelease,
          ResolveDispute, QueueAllocation, Dropped, Drop, IncidentNext, Incidents, Reclaim, GuardianFreeze, SetPaused,
          SetReleaseSigner, WorkerNext, Dispatch, Prepare, Sign, Submit, Receipt, Unconfirmed, Finish, SubmitUnavailable,
          Crash, NotDispatched, LookupUnavailable, PrepareBatch, payoutVars, escrowVars
  <2> QED
      BY <2>1
<1> QED
    BY <1>1, <1>2 DEF PayoutNext

\* The rows and the workers keep their types, and a row once queued is never forgotten.
LEMMA OutboxStep ==
    PayoutInv /\ [PayoutNext]_payoutVars =>
        OutboxTypes' /\ \A p \in Payouts : payoutRow[p].state # "NONE" => payoutRow'[p].state # "NONE"
<1> DEFINE Goal == OutboxTypes' /\ \A p \in Payouts : payoutRow[p].state # "NONE" => payoutRow'[p].state # "NONE"
<1> SUFFICES ASSUME PayoutInv, [PayoutNext]_payoutVars
             PROVE  Goal
    OBVIOUS
<1>0. payoutRow \in [Payouts -> Rows] /\ worker \in [Workers -> Holdings]
    BY DEF PayoutInv, OutboxTypes
<1>a. {} \in AuthSets
    BY FS_EmptySet DEF AuthSets
<1>b. Idle \in Holdings
    BY <1>a DEF Idle, Holdings
<1>1. ASSUME UNCHANGED <<payoutRow, worker>>
      PROVE  Goal
    BY <1>0, <1>1 DEF OutboxTypes
<1>2. ASSUME NEW ps \in SUBSET Payouts, Enqueue(ps), UNCHANGED worker
      PROVE  Goal
    BY <1>0, <1>2 DEF Enqueue, OutboxTypes, Rows, PayoutStates
<1>3. ASSUME UNCHANGED payoutRow, NEW w \in Workers, NEW x \in Holdings, worker' = [worker EXCEPT ![w] = x]
      PROVE  Goal
    BY <1>0, <1>3 DEF OutboxTypes
<1>4. ASSUME NEW ps \in SUBSET Payouts, payoutRow' = Signed(ps), worker' \in [Workers -> Holdings]
      PROVE  Goal
    BY <1>0, <1>4 DEF Signed, OutboxTypes, Rows, PayoutStates
<1>5. ASSUME NEW p \in Payouts, NEW st \in PayoutStates \ {"NONE"}, payoutRow' = [payoutRow EXCEPT ![p].state = st],
             worker' \in [Workers -> Holdings]
      PROVE  Goal
    BY <1>0, <1>5 DEF OutboxTypes, Rows
<1>6. CASE CreditDeposit \/ StartWork \/ ApproveOrder
    BY <1>1, <1>6 DEF CreditDeposit, StartWork, ApproveOrder
<1>7. CASE CancelOrder
    BY <1>2, <1>7 DEF CancelOrder, RefundPayout
<1>8. CASE OpenDispute
    BY <1>2, <1>8, OrderBucketKnown DEF OpenDispute, Freezes
<1>9. ASSUME NEW d \in {"RESUME", "APPROVE", "REFUND"}, NEW r, ResolveDispute(d, r)
      PROVE  Goal
  <2>1. Of("UNFREEZE") \in Payouts
      BY OrderBucketKnown DEF Freezes
  <2>2. PICK ps \in SUBSET Payouts : Enqueue(ps)
    <3>1. CASE d = "RESUME" \/ d = "APPROVE"
        BY <1>9, <2>1, <3>1 DEF ResolveDispute
    <3>2. CASE d = "REFUND"
      <4>1. {Of("UNFREEZE")} \cup RefundPayout(r) \in SUBSET Payouts
          BY <2>1 DEF RefundPayout
      <4> QED
          BY <1>9, <3>2, <4>1 DEF ResolveDispute
    <3> QED
        BY <3>1, <3>2
  <2> QED
      BY <1>2, <1>9, <2>2 DEF ResolveDispute
<1>10. CASE QueueRelease
  <2>1. PICK ps \in SUBSET Payouts : Enqueue(ps)
      BY <1>10 DEF QueueRelease
  <2> QED
      BY <1>2, <1>10, <2>1 DEF QueueRelease
<1>11. ASSUME NEW p \in Payouts, QueueAllocation(p)
       PROVE  Goal
    BY <1>2, <1>11 DEF QueueAllocation
<1>12. CASE Mined \/ Dropped \/ IncidentNext
    BY <1>1, <1>12 DEF Mined, Dropped, IncidentNext
<1>13. ASSUME NEW w \in Workers, NEW p \in Payouts, Prepare(w, p) \/ LookupUnavailable(w, p)
       PROVE  Goal
  <2>1. PICK x \in Holdings : worker' = [worker EXCEPT ![w] = x]
      BY <1>13, <1>a DEF Prepare, LookupUnavailable, Hold, Holdings
  <2> QED
      BY <1>3, <1>13, <2>1 DEF Prepare, LookupUnavailable
<1>14. ASSUME NEW w \in Workers, NEW ids \in SUBSET Payouts, PrepareBatch(w, ids)
       PROVE  Goal
  <2>1. PICK x \in Holdings : worker' = [worker EXCEPT ![w] = x]
      BY <1>14, <1>a DEF PrepareBatch, Hold, Holdings
  <2> QED
      BY <1>3, <1>14, <2>1 DEF PrepareBatch
<1>15. ASSUME NEW w \in Workers, NEW p \in Payouts, NotDispatched(w, p)
       PROVE  Goal
    BY <1>0, <1>5, <1>15 DEF NotDispatched, PayoutStates
<1>16. ASSUME NEW w \in Workers, Sign(w)
       PROVE  Goal
  <2> DEFINE ids == worker[w].ids
             batch == Cardinality(ids) > 1
             ready == {p \in ids : payoutRow[p].state \in IF batch THEN {"QUEUED", "RETRY"} ELSE Due}
  <2>1. ids \in SUBSET Payouts
      BY <1>0 DEF Holdings
  <2>2. CASE ready = ids
    <3>1. payoutRow' = Signed(ids) /\ Hold(w, "submit", ids, {Authorization(p) : p \in ids}, "NONE")
        BY <1>16, <2>2 DEF Sign
    <3>2. {Authorization(p) : p \in ids} \in AuthSets
        BY <2>1, AuthorizationsFinite DEF PayoutInv
    <3>3. worker' \in [Workers -> Holdings]
        BY <1>0, <2>1, <3>1, <3>2 DEF Hold, Holdings
    <3> QED
        BY <1>4, <2>1, <3>1, <3>3
  <2>3. CASE ready # ids /\ batch
    <3>1. PICK before \in SUBSET ready : payoutRow' = Signed(before) /\ Hold(w, "finish", ids, {}, BatchRejected)
        BY <1>16, <2>3 DEF Sign
    <3>2. worker' \in [Workers -> Holdings]
        BY <1>0, <1>a, <2>1, <3>1 DEF Hold, Holdings, BatchRejected
    <3>3. before \in SUBSET Payouts
        BY <2>1
    <3> QED
        BY <1>4, <3>1, <3>2, <3>3
  <2>4. CASE ready # ids /\ ~batch
    <3>1. payoutRow' = payoutRow /\ worker' = [worker EXCEPT ![w] = Idle]
        BY <1>16, <2>4 DEF Sign
    <3> QED
        BY <1>3, <1>b, <3>1
  <2> QED
      BY <2>2, <2>3, <2>4
<1>17. ASSUME NEW w \in Workers, Submit(w) \/ SubmitUnavailable(w) \/ Unconfirmed(w) \/ Receipt(w)
       PROVE  Goal
  <2>1. worker[w] \in Holdings
      BY <1>0
  <2>2. Outcome(worker[w].auths) \in {"CONFIRMED", "RETRY", "FAILED"}
      BY DEF Outcome, BatchRejected
  <2>3. PICK x \in Holdings : worker' = [worker EXCEPT ![w] = x]
    <3>1. CASE Submit(w)
        BY <3>1, <2>1, <2>2, <1>a DEF Submit, Hold, Holdings
    <3>2. CASE SubmitUnavailable(w) \/ Unconfirmed(w)
        BY <3>2, <2>1, <1>a DEF SubmitUnavailable, Unconfirmed, Hold, Holdings
    <3>3. CASE Receipt(w)
      <4>1. PICK o \in {"CONFIRMED", "RETRY", "FAILED"} : Hold(w, "finish", worker[w].ids, {}, o)
          BY <3>3 DEF Receipt, BatchRejected
      <4> QED
          BY <4>1, <2>1, <1>a DEF Hold, Holdings
    <3> QED
        BY <1>17, <3>1, <3>2, <3>3
  <2>4. UNCHANGED payoutRow
      BY <1>17 DEF Submit, SubmitUnavailable, Unconfirmed, Receipt
  <2> QED
      BY <1>3, <2>3, <2>4
<1>18. ASSUME NEW w \in Workers, NEW p \in Payouts, Finish(w, p)
       PROVE  Goal
  <2> DEFINE rest == worker[w].ids \ {p}
  <2>1. worker[w] \in Holdings /\ worker[w].outcome \in PayoutStates \ {"NONE"}
      BY <1>0, <1>18 DEF Finish, Holdings, PayoutStates, PayoutInv, WorkerInv, HoldingOK
  <2>2. PICK x \in Holdings : worker' = [worker EXCEPT ![w] = x]
    <3>1. CASE rest = {}
        BY <1>18, <1>b, <3>1 DEF Finish
    <3>2. CASE rest # {}
      <4>1. [phase |-> "finish", ids |-> rest, auths |-> {}, outcome |-> worker[w].outcome] \in Holdings
          BY <1>a, <2>1 DEF Holdings
      <4> QED
          BY <1>18, <3>2, <4>1 DEF Finish, Hold
    <3> QED
        BY <3>1, <3>2
  <2>3. worker' \in [Workers -> Holdings]
      BY <1>0, <2>2
  <2>4. \/ UNCHANGED payoutRow
        \/ \E st \in PayoutStates \ {"NONE"} : payoutRow' = [payoutRow EXCEPT ![p].state = st]
    <3>1. {"CONFIRMED", "FAILED"} \subseteq PayoutStates \ {"NONE"}
        BY DEF PayoutStates
    <3> QED
        BY <1>18, <2>1, <3>1 DEF Finish
  <2>5. ASSUME UNCHANGED payoutRow
        PROVE  Goal
      BY <1>3, <2>2, <2>5
  <2> HIDE DEF Goal
  <2> QED
      BY <1>5, <2>3, <2>4, <2>5
<1>19. ASSUME NEW w \in Workers, Crash(w)
       PROVE  Goal
    BY <1>3, <1>19, <1>b DEF Crash
<1>20. CASE UNCHANGED payoutVars
    BY <1>1, <1>20 DEF payoutVars
<1> HIDE DEF Goal
<1> QED
    BY <1>6, <1>7, <1>8, <1>9, <1>10, <1>11, <1>12, <1>13, <1>14, <1>15, <1>16, <1>17, <1>18, <1>19, <1>20
    DEF PayoutNext, OrderNext, WorkerNext, Dispatch

\* A transaction that took effect left its references used.
LEMMA MinedStep == PayoutInv /\ [PayoutNext]_payoutVars => MinedIsUsed'
<1> SUFFICES ASSUME PayoutInv, [PayoutNext]_payoutVars
             PROVE  MinedIsUsed'
    OBVIOUS
<1>0. MinedIsUsed /\ payoutUsed \subseteq payoutUsed'
    BY UsedStays DEF PayoutInv, WorkerInv
<1>1. ASSUME \A t \in txs' : t \in txs \/ t.result # "OK"
      PROVE  MinedIsUsed'
    BY <1>0, <1>1 DEF MinedIsUsed
<1>2. CASE Mined
  <2>1. PICK t \in txs : Mine(t)
      BY <1>2 DEF Mined
  <2>2. t \in Transactions /\ t.auths \in AuthSets
      BY DEF PayoutInv, EscrowInv, EscrowTypes, Transactions
  <2>3. CASE Executes(t.auths)
    <3>1. Apply(t.auths) /\ txs' = (txs \ {t}) \cup {[t EXCEPT !.result = "OK"]}
        BY <2>1, <2>3 DEF Mine
    <3>2. \A a \in t.auths : Kind[a[1]] \notin Freezes => a[1] \in payoutUsed'
        BY <2>2, <2>3, <3>1, ApplyKeeps DEF PayoutInv
    <3>3. [t EXCEPT !.result = "OK"].auths = t.auths
        BY <2>2 DEF Transactions
    <3> QED
        BY <1>0, <3>1, <3>2, <3>3 DEF MinedIsUsed
  <2>4. CASE ~Executes(t.auths)
      BY <1>1, <2>1, <2>2, <2>4 DEF Mine, Transactions
  <2> QED
      BY <2>3, <2>4
<1>3. CASE Dropped
    BY <1>1, <1>3 DEF Dropped, Drop
<1>4. ASSUME NEW w \in Workers, Submit(w) \/ SubmitUnavailable(w) \/ Receipt(w)
      PROVE  MinedIsUsed'
  <2>1. \A t \in txs' : t \in txs \/ t = [auths |-> worker[w].auths, result |-> "PENDING"]
      BY <1>4 DEF Submit, SubmitUnavailable, Receipt
  <2> QED
      BY <1>1, <2>1
<1>5. ASSUME UNCHANGED txs
      PROVE  MinedIsUsed'
    BY <1>1, <1>5
<1>6. CASE OrderNext \/ IncidentNext \/ UNCHANGED payoutVars
  <2>1. UNCHANGED txs
      BY <1>6
      DEF OrderNext, CreditDeposit, FundBucket, StartWork, CancelOrder, ApproveOrder, OpenDispute, QueueRelease,
          ResolveDispute, QueueAllocation, IncidentNext, Incidents, Reclaim, GuardianFreeze, SetPaused,
          SetReleaseSigner, payoutVars, escrowVars
  <2> QED
      BY <1>5, <2>1
<1>7. ASSUME NEW w \in Workers,
              \/ Sign(w) \/ Unconfirmed(w) \/ Crash(w)
              \/ \E p \in Payouts : Prepare(w, p) \/ Finish(w, p) \/ NotDispatched(w, p) \/ LookupUnavailable(w, p)
              \/ \E ids \in SUBSET Payouts : PrepareBatch(w, ids)
       PROVE  MinedIsUsed'
  <2>1. UNCHANGED txs
      BY <1>7 DEF Sign, Unconfirmed, Crash, Prepare, Finish, NotDispatched, LookupUnavailable, PrepareBatch, escrowVars
  <2> QED
      BY <1>5, <2>1
<1> QED
    BY <1>2, <1>3, <1>4, <1>6, <1>7 DEF PayoutNext, WorkerNext, Dispatch

\* A single authorisation refused because its reference was paid before: the payout it stands for was.
LEMMA ReplayWasPaid ==
    ASSUME NEW auths \in AuthSets, NEW ids \in SUBSET Payouts, \A p \in ids : \E a \in auths : a[1] = p,
           Outcome(auths) = "CONFIRMED"
    PROVE  ids \subseteq payoutUsed
<1>1. ~(Cardinality(auths) > 1) /\ \E a \in auths : Revert(a) = "PayoutAlreadyReleased"
    BY DEF Outcome, BatchRejected
<1>2. PICK a \in auths : Revert(a) = "PayoutAlreadyReleased"
    BY <1>1
<1>3. a[1] \in payoutUsed
    BY <1>2 DEF Revert
<1>4. auths = {a}
  <2>1. IsFiniteSet(auths) /\ Cardinality(auths) \in Nat
      BY FS_CardinalityType DEF AuthSets
  <2>2. Cardinality(auths) # 0
      BY <2>1, FS_EmptySet
  <2>3. Cardinality(auths) = 1
      BY <1>1, <2>1, <2>2
  <2>4. \E x : auths = {x}
      BY <2>1, <2>3, FS_Singleton
  <2> QED
      BY <2>4
<1> QED
    BY <1>3, <1>4

\* Whatever the others do, what a worker holds stays justified, and so is what it takes up next.
LEMMA HoldingsStep == PayoutInv /\ [PayoutNext]_payoutVars => \A w \in Workers : HoldingOK(worker[w])'
<1> DEFINE Goal == \A w \in Workers : HoldingOK(worker[w])'
<1> SUFFICES ASSUME PayoutInv, [PayoutNext]_payoutVars
             PROVE  Goal
    OBVIOUS
<1>0. /\ payoutUsed \subseteq payoutUsed'
      /\ \A p \in Payouts : payoutRow[p].state # "NONE" => payoutRow'[p].state # "NONE"
      /\ worker \in [Workers -> Holdings] /\ \A w \in Workers : HoldingOK(worker[w]) /\ worker[w].ids \in SUBSET Payouts
    BY UsedStays, OutboxStep DEF PayoutInv, WorkerInv, OutboxTypes, Holdings
<1>a. ASSUME NEW w \in Workers, worker'[w] = worker[w]
      PROVE  HoldingOK(worker[w])'
    BY <1>0, <1>a DEF HoldingOK
<1>1. ASSUME UNCHANGED worker
      PROVE  Goal
    BY <1>a, <1>1
<1>2. ASSUME NEW w \in Workers, NEW x, worker' = [worker EXCEPT ![w] = x], HoldingOK(x)'
      PROVE  Goal
  <2>1. worker'[w] = x /\ \A v \in Workers \ {w} : worker'[v] = worker[v]
      BY <1>0, <1>2
  <2>2. HoldingOK(worker[w])'
      BY <1>2, <2>1 DEF HoldingOK
  <2> QED
      BY <1>a, <2>1, <2>2
<1>3. HoldingOK(Idle)'
    BY DEF HoldingOK, Idle
<1>4. CASE OrderNext \/ Mined \/ Dropped \/ IncidentNext \/ UNCHANGED payoutVars
  <2>1. UNCHANGED worker
      BY <1>4
      DEF OrderNext, CreditDeposit, StartWork, CancelOrder, ApproveOrder, OpenDispute, QueueRelease,
          ResolveDispute, QueueAllocation, Mined, Dropped, IncidentNext, payoutVars
  <2> QED
      BY <1>1, <2>1
<1>5. ASSUME NEW w \in Workers, NEW p \in Payouts, Prepare(w, p) \/ LookupUnavailable(w, p)
      PROVE  Goal
  <2>1. payoutRow[p].state # "NONE"
      BY <1>5 DEF Prepare, LookupUnavailable, Due
  <2>2. \E x : worker' = [worker EXCEPT ![w] = x] /\ HoldingOK(x)'
    <3>1. CASE LookedUp(p) /\ p \in payoutUsed /\ Prepare(w, p)
      <4> DEFINE x == [phase |-> "finish", ids |-> {p}, auths |-> {}, outcome |-> "CONFIRMED"]
      <4>1. worker' = [worker EXCEPT ![w] = x]
          BY <3>1 DEF Prepare, Hold
      <4>2. HoldingOK(x)'
          BY <1>0, <2>1, <3>1 DEF HoldingOK
      <4> QED
          BY <4>1, <4>2
    <3>2. CASE ~(LookedUp(p) /\ p \in payoutUsed) /\ Prepare(w, p)
      <4> DEFINE x == [phase |-> "sign", ids |-> {p}, auths |-> {}, outcome |-> "NONE"]
      <4>1. worker' = [worker EXCEPT ![w] = x]
          BY <3>2 DEF Prepare, Hold
      <4>2. HoldingOK(x)'
          BY <1>0, <2>1 DEF HoldingOK
      <4> QED
          BY <4>1, <4>2
    <3>3. CASE LookupUnavailable(w, p)
      <4> DEFINE x == [phase |-> "finish", ids |-> {p}, auths |-> {}, outcome |-> "UNKNOWN"]
      <4>1. worker' = [worker EXCEPT ![w] = x]
          BY <3>3 DEF LookupUnavailable, Hold
      <4>2. HoldingOK(x)'
          BY <1>0, <2>1 DEF HoldingOK
      <4> QED
          BY <4>1, <4>2
    <3> QED
        BY <1>5, <3>1, <3>2, <3>3
  <2> QED
      BY <1>2, <2>2
<1>6. ASSUME NEW w \in Workers, NEW ids \in SUBSET Payouts, PrepareBatch(w, ids)
      PROVE  Goal
  <2> DEFINE x == [phase |-> "sign", ids |-> ids, auths |-> {}, outcome |-> "NONE"]
  <2>1. worker' = [worker EXCEPT ![w] = x]
      BY <1>6 DEF PrepareBatch, Hold
  <2>2. HoldingOK(x)'
      BY <1>0, <1>6 DEF PrepareBatch, DueReleaseBatch, HoldingOK
  <2> QED
      BY <1>2, <2>1, <2>2
<1>7. ASSUME NEW w \in Workers, Sign(w)
      PROVE  Goal
  <2> DEFINE ids == worker[w].ids
             S == [phase |-> "submit", ids |-> ids, auths |-> {Authorization(p) : p \in ids}, outcome |-> "NONE"]
             F == [phase |-> "finish", ids |-> ids, auths |-> {}, outcome |-> BatchRejected]
  <2>1. \A p \in ids : p \in Payouts /\ payoutRow'[p].state # "NONE"
      BY <1>0 DEF HoldingOK
  <2>2. worker' = [worker EXCEPT ![w] = S] \/ worker' = [worker EXCEPT ![w] = F] \/ worker' = [worker EXCEPT ![w] = Idle]
      BY <1>7 DEF Sign, Hold
  <2>3. ASSUME worker' = [worker EXCEPT ![w] = S]
        PROVE  Goal
    <3> DEFINE A == {Authorization(p) : p \in ids}
    <3>1. ASSUME NEW p \in ids
          PROVE  \E a \in A : a[1] = p
      <4>1. Authorization(p) \in A
          OBVIOUS
      <4>2. Authorization(p)[1] = p
          BY DEF Authorization
      <4> QED
          BY <4>1, <4>2
    <3>2. worker'[w] = S /\ \A v \in Workers \ {w} : worker'[v] = worker[v]
        BY <1>0, <2>3
    <3>3. worker'[w].phase = "submit" /\ worker'[w].ids = ids /\ worker'[w].auths = A
        BY <3>2
    <3> HIDE DEF A, S
    <3>4. HoldingOK(worker[w])'
        BY <2>1, <3>1, <3>3 DEF HoldingOK
    <3> QED
        BY <1>a, <3>2, <3>4
  <2>4. ASSUME worker' = [worker EXCEPT ![w] = F]
        PROVE  Goal
    <3>1. worker'[w] = F /\ \A v \in Workers \ {w} : worker'[v] = worker[v]
        BY <1>0, <2>4
    <3>2. HoldingOK(worker[w])'
        BY <2>1, <3>1 DEF HoldingOK, BatchRejected
    <3> QED
        BY <1>a, <3>1, <3>2
  <2>5. ASSUME worker' = [worker EXCEPT ![w] = Idle]
        PROVE  Goal
      BY <1>2, <1>3, <2>5
  <2> QED
      BY <2>2, <2>3, <2>4, <2>5
<1>8. ASSUME NEW w \in Workers, worker[w].phase \in {"submit", "wait"}, NEW o \in {"CONFIRMED", "UNKNOWN", "RETRY", "FAILED"},
             o = "CONFIRMED" => \A p \in worker[w].ids : Kind[p] \notin Freezes => p \in payoutUsed,
             Hold(w, "finish", worker[w].ids, {}, o)
      PROVE  Goal
  <2>1. /\ worker'[w] = [phase |-> "finish", ids |-> worker[w].ids, auths |-> {}, outcome |-> o]
        /\ \A v \in Workers \ {w} : worker'[v] = worker[v]
      BY <1>0, <1>8 DEF Hold
  <2>2. HoldingOK(worker[w])'
      BY <1>0, <1>8, <2>1 DEF HoldingOK
  <2> QED
      BY <1>a, <2>1, <2>2
<1>9. ASSUME NEW w \in Workers, Submit(w)
      PROVE  Goal
  <2>0. worker[w].auths \in AuthSets /\ worker[w].phase = "submit"
      BY <1>0, <1>9 DEF Holdings, Submit
  <2>1. CASE Executes(worker[w].auths)
    <3>1. Hold(w, "wait", worker[w].ids, worker[w].auths, "NONE")
        BY <1>9, <2>1 DEF Submit
    <3>2. /\ worker'[w] = [phase |-> "wait", ids |-> worker[w].ids, auths |-> worker[w].auths, outcome |-> "NONE"]
          /\ \A v \in Workers \ {w} : worker'[v] = worker[v]
        BY <1>0, <3>1 DEF Hold
    <3>3. HoldingOK(worker[w])'
        BY <1>0, <2>0, <3>2 DEF HoldingOK
    <3> QED
        BY <1>a, <3>2, <3>3
  <2>2. CASE ~Executes(worker[w].auths)
    <3> DEFINE o == Outcome(worker[w].auths)
    <3>1. o \in {"CONFIRMED", "UNKNOWN", "RETRY", "FAILED"}
        BY DEF Outcome, BatchRejected
    <3>2. o = "CONFIRMED" => worker[w].ids \subseteq payoutUsed
        BY <1>0, <2>0, ReplayWasPaid DEF HoldingOK
    <3>3. Hold(w, "finish", worker[w].ids, {}, o)
        BY <1>9, <2>2 DEF Submit
    <3> HIDE DEF o
    <3> QED
        BY <1>8, <2>0, <3>1, <3>2, <3>3
  <2> QED
      BY <2>1, <2>2
<1>10. ASSUME NEW w \in Workers, SubmitUnavailable(w) \/ Unconfirmed(w)
       PROVE  Goal
    BY <1>8, <1>10 DEF SubmitUnavailable, Unconfirmed
<1>11. ASSUME NEW w \in Workers, Receipt(w)
       PROVE  Goal
  <2>1. PICK t \in txs :
           /\ worker[w].phase = "wait" /\ t.auths = worker[w].auths
           /\ \E o \in {"CONFIRMED", "RETRY", "FAILED"} :
                 (o = "CONFIRMED" => t.result = "OK") /\ Hold(w, "finish", worker[w].ids, {}, o)
      BY <1>11 DEF Receipt, BatchRejected
  <2>2. PICK o \in {"CONFIRMED", "RETRY", "FAILED"} :
           (o = "CONFIRMED" => t.result = "OK") /\ Hold(w, "finish", worker[w].ids, {}, o)
      BY <2>1
  <2>3. t.result = "OK" => \A p \in worker[w].ids : Kind[p] \notin Freezes => p \in payoutUsed
      BY <1>0, <2>1 DEF HoldingOK, PayoutInv, WorkerInv, MinedIsUsed
  <2> QED
      BY <1>8, <2>1, <2>2, <2>3
<1>12. ASSUME NEW w \in Workers, NEW p \in Payouts, Finish(w, p)
       PROVE  Goal
  <2> DEFINE rest == worker[w].ids \ {p}
  <2>1. CASE rest = {}
      BY <1>2, <1>3, <1>12, <2>1 DEF Finish
  <2>2. CASE rest # {}
    <3>1. Hold(w, "finish", rest, {}, worker[w].outcome) /\ worker[w].phase = "finish"
        BY <1>12, <2>2 DEF Finish
    <3>2. /\ worker'[w] = [phase |-> "finish", ids |-> rest, auths |-> {}, outcome |-> worker[w].outcome]
          /\ \A v \in Workers \ {w} : worker'[v] = worker[v]
        BY <1>0, <3>1 DEF Hold
    <3>3. HoldingOK(worker[w])'
        BY <1>0, <3>1, <3>2 DEF HoldingOK
    <3> QED
        BY <1>a, <3>2, <3>3
  <2> QED
      BY <2>1, <2>2
<1>13. ASSUME NEW w \in Workers, Crash(w)
       PROVE  Goal
    BY <1>2, <1>3, <1>13 DEF Crash
<1>14. ASSUME NEW w \in Workers, NEW p \in Payouts, NotDispatched(w, p)
       PROVE  Goal
    BY <1>1, <1>14 DEF NotDispatched
<1> HIDE DEF Goal
<1> QED
    BY <1>4, <1>5, <1>6, <1>7, <1>9, <1>10, <1>11, <1>12, <1>13, <1>14 DEF PayoutNext, WorkerNext, Dispatch

\* Only finish confirms a row, and only for a worker whose CONFIRMED is justified.
LEMMA RowsStep == PayoutInv /\ [PayoutNext]_payoutVars => RowsArePaid'
<1> SUFFICES ASSUME PayoutInv, [PayoutNext]_payoutVars, NEW p \in Payouts,
                    payoutRow'[p].state = "CONFIRMED", Kind[p] \notin Freezes
             PROVE  p \in payoutUsed'
    BY DEF RowsArePaid
<1>0. payoutUsed \subseteq payoutUsed' /\ payoutRow \in [Payouts -> Rows] /\ RowsArePaid
      /\ \A w \in Workers : HoldingOK(worker[w])
    BY UsedStays DEF PayoutInv, WorkerInv, OutboxTypes
<1>1. ASSUME payoutRow[p].state = "CONFIRMED"
      PROVE  p \in payoutUsed'
    BY <1>0, <1>1 DEF RowsArePaid
<1>2. CASE OrderNext \/ Mined \/ Dropped \/ IncidentNext \/ UNCHANGED payoutVars
  <2>1. payoutRow' = payoutRow \/ \E ps : Enqueue(ps)
      BY <1>2
      DEF OrderNext, CreditDeposit, StartWork, CancelOrder, ApproveOrder, OpenDispute, QueueRelease,
          ResolveDispute, QueueAllocation, Mined, Dropped, IncidentNext, payoutVars
  <2> QED
      BY <1>1, <2>1 DEF Enqueue
<1>3. ASSUME NEW w \in Workers,
             \/ Submit(w) \/ SubmitUnavailable(w) \/ Receipt(w) \/ Unconfirmed(w) \/ Crash(w)
             \/ \E q \in Payouts : Prepare(w, q) \/ LookupUnavailable(w, q)
             \/ \E ids \in SUBSET Payouts : PrepareBatch(w, ids)
      PROVE  p \in payoutUsed'
  <2>1. UNCHANGED payoutRow
      BY <1>3 DEF Submit, SubmitUnavailable, Receipt, Unconfirmed, Crash, Prepare, LookupUnavailable, PrepareBatch
  <2> QED
      BY <1>1, <2>1
<1>4. ASSUME NEW w \in Workers, NEW q \in Payouts, NotDispatched(w, q)
      PROVE  p \in payoutUsed'
    BY <1>0, <1>1, <1>4 DEF NotDispatched, Rows
<1>5. ASSUME NEW w \in Workers, Sign(w)
      PROVE  p \in payoutUsed'
  <2>1. payoutRow' = payoutRow \/ \E ps : payoutRow' = Signed(ps)
      BY <1>5 DEF Sign
  <2> QED
      BY <1>1, <2>1 DEF Signed
<1>6. ASSUME NEW w \in Workers, NEW q \in Payouts, Finish(w, q)
      PROVE  p \in payoutUsed'
  <2>1. CASE q = p /\ payoutRow[p].state # "CONFIRMED"
    <3>1. worker[w].outcome = "CONFIRMED" /\ worker[w].phase = "finish" /\ p \in worker[w].ids
        BY <1>0, <1>6, <2>1 DEF Finish, Rows
    <3> QED
        BY <1>0, <3>1 DEF HoldingOK
  <2>2. CASE q # p
    <3>1. payoutRow'[p] = payoutRow[p]
        BY <1>0, <1>6, <2>2 DEF Finish
    <3> QED
        BY <1>1, <3>1
  <2> QED
      BY <1>1, <2>1, <2>2
<1> QED
    BY <1>2, <1>3, <1>4, <1>5, <1>6 DEF PayoutNext, WorkerNext, Dispatch

-----------------------------------------------------------------------------
(* The order *)

\* A worker that does not finish a payout leaves the order alone and takes no row out of a final state.
LEMMA QuietStep ==
    ASSUME PayoutInv, [PayoutNext]_payoutVars, ~OrderNext, ~\E w \in Workers, p \in Payouts : Finish(w, p)
    PROVE  /\ UNCHANGED orderRow
           /\ \A p \in Payouts : payoutRow'[p].state # payoutRow[p].state => payoutRow[p].state \in Due /\ payoutRow'[p].state \notin Final
<1> DEFINE Goal == /\ UNCHANGED orderRow
                   /\ \A p \in Payouts : payoutRow'[p].state # payoutRow[p].state => payoutRow[p].state \in Due /\ payoutRow'[p].state \notin Final
<1>0. payoutRow \in [Payouts -> Rows]
    BY DEF PayoutInv, OutboxTypes
<1>1. CASE Mined \/ Dropped \/ IncidentNext \/ UNCHANGED payoutVars
    BY <1>1 DEF Mined, Dropped, IncidentNext, payoutVars
<1>2. ASSUME NEW w \in Workers,
             \/ Submit(w) \/ SubmitUnavailable(w) \/ Receipt(w) \/ Unconfirmed(w) \/ Crash(w)
             \/ \E q \in Payouts : Prepare(w, q) \/ LookupUnavailable(w, q)
             \/ \E ids \in SUBSET Payouts : PrepareBatch(w, ids)
      PROVE  Goal
  <2>1. UNCHANGED <<payoutRow, orderRow>>
      BY <1>2 DEF Submit, SubmitUnavailable, Receipt, Unconfirmed, Crash, Prepare, LookupUnavailable, PrepareBatch
  <2> QED
      BY <2>1
<1>3. ASSUME NEW w \in Workers, NEW q \in Payouts, NotDispatched(w, q)
      PROVE  Goal
    BY <1>0, <1>3 DEF NotDispatched, Rows, Final
<1>4. ASSUME NEW w \in Workers, Sign(w)
      PROVE  Goal
  <2>1. UNCHANGED orderRow
      BY <1>4 DEF Sign
  <2>2. CASE payoutRow' = payoutRow
      BY <2>1, <2>2
  <2>3. ASSUME NEW ps, payoutRow' = Signed(ps), \A p \in ps : payoutRow[p].state \in Due
        PROVE  Goal
      BY <2>1, <2>3 DEF Signed, Final
  <2>4. payoutRow' = payoutRow \/ (\E ps : payoutRow' = Signed(ps) /\ \A p \in ps : payoutRow[p].state \in Due)
      BY <1>4 DEF Sign, Due
  <2> QED
      BY <2>2, <2>3, <2>4
<1> QED
    BY <1>1, <1>2, <1>3, <1>4 DEF PayoutNext, WorkerNext, Dispatch

\* Enqueue moves only rows that were not queued.
LEMMA EnqueueMoves ==
    ASSUME NEW ps, Enqueue(ps), NEW p \in Payouts
    PROVE  payoutRow'[p].state = IF p \in ps /\ payoutRow[p].state = "NONE" THEN "QUEUED" ELSE payoutRow[p].state
    BY DEF Enqueue

\* Every step keeps the order's columns, its payout rows and what the contract paid in agreement.
LEMMA OrderStep == PayoutInv /\ OrderInv /\ [PayoutNext]_payoutVars => OrderInv'
<1> SUFFICES ASSUME PayoutInv, OrderInv, [PayoutNext]_payoutVars
             PROVE  OrderInv'
    OBVIOUS
<1>0. payoutUsed \subseteq payoutUsed' /\ RowsArePaid' /\ payoutRow \in [Payouts -> Rows] /\ AmountOf \in [Payouts -> Nat] /\ Amount \in Nat
    BY UsedStays, RowsStep, EscrowAssumption DEF PayoutInv, OutboxTypes, Amount
<1> USE DEF OrderInv, OrderTypes, StageInv, RowsFitOrder, ConfirmedIsPaid, RowsArePaid, RefundAmount, ReleaseAmount, NoAmount,
            orderRow, Final, Due
<1>1. CASE ~OrderNext /\ ~\E w \in Workers, p \in Payouts : Finish(w, p)
  <2>1. /\ UNCHANGED orderRow
        /\ \A p \in Payouts : payoutRow'[p].state # payoutRow[p].state => payoutRow[p].state \in Due /\ payoutRow'[p].state \notin Final
      BY <1>1, QuietStep
  <2> QED
      BY <1>0, <2>1
<1>2. CASE CreditDeposit
    BY <1>0, <1>2 DEF CreditDeposit
<1>3. CASE StartWork
    BY <1>0, <1>3 DEF StartWork
<1>4. CASE CancelOrder
  <2>1. \A p \in Payouts : payoutRow'[p].state = IF p \in RefundPayout(Amount) /\ payoutRow[p].state = "NONE" THEN "QUEUED"
                                                ELSE payoutRow[p].state
      BY <1>4, EnqueueMoves DEF CancelOrder
  <2> QED
      BY <1>0, <1>4, <2>1 DEF CancelOrder, RefundPayout
<1>5. CASE ApproveOrder
    BY <1>0, <1>5 DEF ApproveOrder
<1>6. CASE OpenDispute
  <2>1. /\ \A p \in Payouts : payoutRow'[p].state = IF p \in {Of("FREEZE")} /\ payoutRow[p].state = "NONE" THEN "QUEUED"
                                                   ELSE payoutRow[p].state
        /\ Kind[Of("FREEZE")] = "FREEZE"
      BY <1>6, EnqueueMoves, OrderBucketKnown DEF OpenDispute, Freezes
  <2> QED
      BY <1>0, <1>6, <2>1 DEF OpenDispute
<1>7. CASE QueueRelease
    BY <1>0, <1>7 DEF QueueRelease, Enqueue, Rows
<1>8. ASSUME NEW p \in Payouts, QueueAllocation(p)
      PROVE  OrderInv'
    BY <1>0, <1>8 DEF QueueAllocation, Enqueue, Rows
<1>9. ASSUME NEW d \in {"RESUME", "APPROVE"}, ResolveDispute(d, 0)
      PROVE  OrderInv'
  <2>1. /\ \A p \in Payouts : payoutRow'[p].state = IF p \in {Of("UNFREEZE")} /\ payoutRow[p].state = "NONE" THEN "QUEUED"
                                                   ELSE payoutRow[p].state
        /\ Kind[Of("UNFREEZE")] = "UNFREEZE"
      BY <1>9, EnqueueMoves, OrderBucketKnown DEF ResolveDispute, Freezes
  <2> QED
      BY <1>0, <1>9, <2>1 DEF ResolveDispute
<1>10. ASSUME NEW r \in 1..Amount, ResolveDispute("REFUND", r)
       PROVE  OrderInv'
  <2>1. /\ \A p \in Payouts : payoutRow'[p].state = IF p \in {Of("UNFREEZE")} \cup RefundPayout(r) /\ payoutRow[p].state = "NONE"
                                                   THEN "QUEUED" ELSE payoutRow[p].state
        /\ Kind[Of("UNFREEZE")] = "UNFREEZE"
      BY <1>10, EnqueueMoves, OrderBucketKnown DEF ResolveDispute, Freezes
  <2> QED
      BY <1>0, <1>10, <2>1 DEF ResolveDispute, RefundPayout
<1>11. ASSUME NEW w \in Workers, NEW p \in Payouts, Finish(w, p)
       PROVE  OrderInv'
  <2>1. /\ payoutRow[p].state # "NONE"
        /\ worker[w].outcome = "CONFIRMED" /\ Kind[p] \notin Freezes => p \in payoutUsed
      BY <1>11 DEF Finish, PayoutInv, WorkerInv, HoldingOK
  <2> QED
      BY <1>0, <1>11, <2>1, PayoutsAssumption DEF Finish, OnConfirmed, OnFailed, Rows, Freezes
<1> QED
    BY <1>1, <1>2, <1>3, <1>4, <1>5, <1>6, <1>7, <1>8, <1>9, <1>10, <1>11 DEF OrderNext

\* A new order, an idle worker and an empty contract.
LEMMA PayoutInitHolds == PayoutInit => PayoutInv /\ OrderInv
<1> SUFFICES ASSUME PayoutInit
             PROVE  PayoutInv /\ OrderInv
    OBVIOUS
<1>1. {} \in AuthSets
    BY FS_EmptySet DEF AuthSets
<1>2. EscrowInv
    BY DEF PayoutInit, EscrowInit, EscrowInv, EscrowTypes, BucketRecords, Remaining
<1>3. OutboxTypes
    BY <1>1 DEF PayoutInit, OutboxTypes, Rows, PayoutStates, Holdings, Idle
<1>4. WorkerInv
    BY DEF PayoutInit, EscrowInit, WorkerInv, MinedIsUsed, RowsArePaid, HoldingOK, Idle
<1>5. OrderInv
    BY DEF PayoutInit, OrderInv, OrderTypes, StageInv, RowsFitOrder, ConfirmedIsPaid, NoAmount
<1> QED
    BY <1>2, <1>3, <1>4, <1>5 DEF PayoutInv

\* The invariant of the rail holds throughout, with or without fairness.
LEMMA PayoutInvariance == PayoutSpec => [](PayoutInv /\ OrderInv)
<1>1. PayoutInv /\ OrderInv /\ [PayoutNext]_payoutVars => (PayoutInv /\ OrderInv)'
    BY EscrowStep, OutboxStep, MinedStep, HoldingsStep, RowsStep, OrderStep DEF PayoutInv, WorkerInv
<1> QED
    BY <1>1, PayoutInitHolds, PTL DEF PayoutSpec

\* Every step of the rail makes one of the money moves of OrderMoney or none.
LEMMA MoneyStep == PayoutInv /\ OrderInv /\ [PayoutNext]_payoutVars => [Money!Next]_Money!moneyVars
<1> SUFFICES ASSUME PayoutInv, OrderInv, [PayoutNext]_payoutVars
             PROVE  Money!Next \/ UNCHANGED Money!moneyVars
    BY DEF Money!moneyVars
<1>0. Amount \in Nat /\ payoutRow \in [Payouts -> Rows]
    BY EscrowAssumption DEF Amount, PayoutInv, OutboxTypes
<1> USE <1>0
    DEF OrderInv, OrderTypes, StageInv, RowsFitOrder, RefundAmount, ReleaseAmount, NoAmount, orderRow, Final, Due,
        Money!Next, Money!Attempt, Money!Fund, Money!Work, Money!CancelBeforeWork, Money!Approve, Money!Agree, Money!Decide,
        Money!RefundLate, Money!Returned, Money!Refunded, Money!Settle, Money!Unpaid, Money!NoAmount, Money!moneyVars
<1>1. CASE ~OrderNext /\ ~\E w \in Workers, p \in Payouts : Finish(w, p)
    BY <1>1, QuietStep
<1>2. CASE CreditDeposit
    BY <1>2 DEF CreditDeposit
<1>3. CASE StartWork
    BY <1>3 DEF StartWork
<1>4. CASE CancelOrder
    BY <1>4 DEF CancelOrder
<1>5. CASE ApproveOrder
    BY <1>5 DEF ApproveOrder
<1>6. CASE OpenDispute
    BY <1>6 DEF OpenDispute
<1>7. CASE QueueRelease
    BY <1>7 DEF QueueRelease
<1>8. ASSUME NEW p \in Payouts, QueueAllocation(p)
      PROVE  Money!Next \/ UNCHANGED Money!moneyVars
    BY <1>8 DEF QueueAllocation
<1>9. ASSUME NEW d \in {"RESUME", "APPROVE"}, ResolveDispute(d, 0)
      PROVE  Money!Next \/ UNCHANGED Money!moneyVars
    BY <1>9 DEF ResolveDispute
<1>10. ASSUME NEW r \in 1..Amount, ResolveDispute("REFUND", r)
       PROVE  Money!Next \/ UNCHANGED Money!moneyVars
    BY <1>10 DEF ResolveDispute
<1>11. ASSUME NEW w \in Workers, NEW p \in Payouts, Finish(w, p)
       PROVE  Money!Next \/ UNCHANGED Money!moneyVars
  <2>1. payoutRow[p].state # "NONE"
      BY <1>11 DEF Finish, PayoutInv, WorkerInv, HoldingOK
  <2> QED
      BY <1>11, <2>1 DEF Finish, OnConfirmed, OnFailed, Rows
<1> QED
    BY <1>1, <1>2, <1>3, <1>4, <1>5, <1>6, <1>7, <1>8, <1>9, <1>10, <1>11 DEF OrderNext

-----------------------------------------------------------------------------
(* The theorems *)

\* Whatever is signed twice, retried, batched, reclaimed or mined late, the contract pays a reference at most once and
\* never gives out more of a bucket than was deposited in it.
THEOREM EscrowPaysAtMostOnce == PayoutSpec => []PaidAtMostOnce
<1>1. PayoutInv => PaidAtMostOnce
    BY DEF PayoutInv, EscrowInv, PaidAtMostOnce
<1> QED
    BY <1>1, PayoutInvariance, PTL

\* A payout recorded as CONFIRMED was paid by the contract, and the order says released or refunded only of what was.
THEOREM ConfirmationsArePaid == PayoutSpec => []ConfirmedIsPaid
BY PayoutInvariance, PTL DEF OrderInv

\* The crypto rail moves an order's money as the card rail does.
THEOREM ChainImplementsMoney == PayoutSpec => MoneySpec
<1>1. PayoutInit => Money!Init
    BY DEF PayoutInit, Money!Init, NoAmount, Money!NoAmount
<1> QED
    BY <1>1, PayoutInvariance, MoneyStep, PTL DEF PayoutSpec, MoneySpec, Money!Spec

LEMMA RecordsKept == OrderInv /\ [Money!Next]_(Money!moneyVars) => [Money!Recorded]_(Money!moneyVars)
<1> SUFFICES ASSUME OrderInv, Money!Next
             PROVE  Money!Recorded
    OBVIOUS
<1>1. /\ stage \in {"AWAITING_PAYMENT", "FUNDED", "WORKING"} =>
             settlement = "NOT_READY" /\ payment \notin {"REFUNDED", "PARTIALLY_REFUNDED"} /\ refundDue = NoAmount
      /\ stage = "REFUNDED" => settlement = "NOT_READY"
    BY DEF OrderInv, StageInv, NoAmount
<1> USE DEF Money!Recorded, Money!NoAmount, NoAmount
<1>2. CASE Money!Attempt
    BY <1>1, <1>2 DEF Money!Attempt
<1>3. CASE Money!Fund \/ Money!Work \/ Money!CancelBeforeWork \/ Money!Approve
    BY <1>1, <1>3 DEF Money!Fund, Money!Work, Money!CancelBeforeWork, Money!Approve
<1>4. CASE (\E refund \in 0..Amount : Money!Agree(refund)) \/ \E refund \in 1..Amount : Money!Decide(refund)
    BY <1>1, <1>4 DEF Money!Agree, Money!Decide
<1>5. CASE Money!RefundLate \/ Money!Returned \/ Money!Refunded
    BY <1>1, <1>5 DEF Money!RefundLate, Money!Unpaid, Money!Returned, Money!Refunded
<1>6. CASE Money!Settle
    BY <1>1, <1>6 DEF Money!Settle
<1> QED
    BY <1>2, <1>3, <1>4, <1>5, <1>6 DEF Money!Next

\* The same on the chain: a payout confirmed late, twice or after a failed attempt never takes back what the order
\* records (onConfirmed, onFailed).
THEOREM ChainKeepsRecords == PayoutSpec => Money!RecordedStays
    BY PayoutInvariance, ChainImplementsMoney, RecordsKept, PTL DEF MoneySpec, Money!Spec, Money!RecordedStays

-----------------------------------------------------------------------------
(* Deposits: the inductive invariant *)

ChainBlocks == [fork : Nat, txs : SUBSET Deposits]
Checks == [phase : {"idle", "receipt", "head", "gone", "pending", "range"}, tx : Deposits \cup {"none"}, number : Nat,
           fork : Nat, head : Nat, todo : SUBSET Deposits, to : Nat]
IntentStates == {"NONE", "AWAITING_DEPOSIT", "PENDING_FINALITY", "CONFIRMED", "EXCEPTION", "CANCELLED"}

DepositTypes ==
    /\ chain \in Seq(ChainBlocks) /\ reorgs \in Nat /\ checkpoint \in Nat
    /\ buyable \in {"AWAITING_PAYMENT", "FUNDED", "CLOSED"} /\ intent \in [Intents -> IntentStates]
    /\ deposit \in [Deposits -> {"NONE", "PENDING_FINALITY"} \cup Decided]
    /\ check \in [Checkers -> Checks]

\* A block is named by its fork: while the block a receipt was read from is canonical it holds the transaction.
CheckOK(x) ==
    /\ x.phase \in {"receipt", "head", "gone"} => x.tx \in Deposits
    /\ x.phase \in {"receipt", "head"} =>
          /\ x.number \in 1..Height /\ x.fork <= reorgs
          /\ chain[x.number].fork = x.fork => x.tx \in chain[x.number].txs
    /\ x.phase = "head" => x.head <= Height

\* A credited deposit lies deeper than any reorganisation reaches, and had nothing to be rejected for.
CreditedDeep ==
    \A t \in Deposits : deposit[t] = "CREDITED" =>
        /\ \E n \in 1..Height : t \in chain[n].txs /\ Height - n + 1 >= Finality
        /\ Flaw[t] = "NONE"

OneCredit == \A t, u \in Deposits : deposit[t] = "CREDITED" /\ deposit[u] = "CREDITED" /\ IntentOf[t] = IntentOf[u] => t = u
FundedByDeposit ==
    buyable = "FUNDED" =>
        \E t \in Deposits : deposit[t] = "CREDITED" /\ IntentOf[t] \in OrderIntents /\ intent[IntentOf[t]] = "CONFIRMED"
PooledIsCredited == pooled = {t \in Deposits : deposit[t] = "CREDITED" /\ IntentOf[t] \in PoolIntents}

ForksGrow == \A n \in 1..Height : chain[n].fork <= reorgs
ChecksOK == \A c \in Checkers : CheckOK(check[c])

DepositInv ==
    /\ DepositTypes /\ ForksGrow /\ ChecksOK /\ CreditedDeep
    /\ OneCredit /\ FundedByDeposit /\ PooledIsCredited

-----------------------------------------------------------------------------
(* The chain grows and reorganises *)

\* A new block leaves every older one in place and one deeper.
LEMMA AddBlockKeeps ==
    ASSUME DepositInv, NEW ts \in SUBSET Deposits, AddBlock(ts)
    PROVE  DepositInv'
<1> DEFINE b == [fork |-> reorgs, txs |-> ts]
<1>1. chain \in Seq(ChainBlocks) /\ reorgs \in Nat /\ b \in ChainBlocks /\ chain' = Append(chain, b)
    BY DEF DepositInv, DepositTypes, ChainBlocks, AddBlock
<1>2. /\ chain' \in Seq(ChainBlocks) /\ Height \in Nat /\ Height' = Height + 1 /\ chain'[Height + 1] = b
      /\ \A n \in 1..Height : chain'[n] = chain[n]
    BY <1>1 DEF Height
<1>3. UNCHANGED <<reorgs, buyable, intent, deposit, pooled, checkpoint, check>>
    BY DEF AddBlock
<1> HIDE DEF b
<1>4. DepositTypes'
    BY <1>2, <1>3 DEF DepositInv, DepositTypes
<1>5. ForksGrow'
  <2>1. b.fork = reorgs
      BY DEF b
  <2>2. ASSUME NEW n \in 1..Height'
        PROVE  chain'[n].fork <= reorgs'
    <3>1. CASE n = Height + 1
      <4>1. chain'[n] = b /\ reorgs' = reorgs
          BY <1>2, <1>3, <3>1
      <4> QED
          BY <1>1, <2>1, <4>1
    <3>2. CASE n \in 1..Height
        BY <1>2, <1>3, <3>2 DEF DepositInv, ForksGrow
    <3> QED
        BY <1>2, <3>1, <3>2
  <2> QED
      BY <2>2 DEF ForksGrow
<1>6. ChecksOK'
  <2>1. ASSUME NEW c \in Checkers
        PROVE  CheckOK(check[c])'
    <3>1. CheckOK(check[c]) /\ check'[c] = check[c] /\ check[c] \in Checks
        BY <1>3 DEF DepositInv, DepositTypes, ChecksOK
    <3> QED
        BY <1>2, <1>3, <3>1 DEF CheckOK, Checks
  <2> QED
      BY <2>1 DEF ChecksOK
<1>7. CreditedDeep'
  <2>1. ASSUME NEW t \in Deposits, deposit'[t] = "CREDITED"
        PROVE  Flaw[t] = "NONE" /\ \E n \in 1..Height' : t \in chain'[n].txs /\ Height' - n + 1 >= Finality
    <3>1. PICK n \in 1..Height : t \in chain[n].txs /\ Height - n + 1 >= Finality
        BY <1>3, <2>1 DEF DepositInv, CreditedDeep
    <3>2. n \in 1..Height' /\ t \in chain'[n].txs /\ Height' - n + 1 >= Finality
        BY <1>2, <3>1, DepositsAssumption
    <3> QED
        BY <1>3, <2>1, <3>2 DEF DepositInv, CreditedDeep
  <2> QED
      BY <2>1 DEF CreditedDeep
<1>8. OneCredit' /\ FundedByDeposit' /\ PooledIsCredited'
    BY <1>3 DEF DepositInv, OneCredit, FundedByDeposit, PooledIsCredited
<1> QED
    BY <1>4, <1>5, <1>6, <1>7, <1>8 DEF DepositInv

\* A reorganisation is shallower than finality and makes its blocks on a fork nobody has read from.
LEMMA ReorgKeeps ==
    ASSUME DepositInv, NEW k \in 1..MaxBlocks, Reorg(k)
    PROVE  DepositInv'
<1>1. /\ chain \in Seq(ChainBlocks) /\ reorgs \in Nat /\ reorgs' = reorgs + 1 /\ k \in Int /\ k < Finality /\ Finality \in Nat
      /\ chain' = [n \in 1..Height |-> IF n > Height - k THEN [fork |-> reorgs + 1, txs |-> {}] ELSE chain[n]]
    BY DepositsAssumption DEF DepositInv, DepositTypes, Reorg
<1>2. Height \in Nat /\ \A n \in 1..Height : chain[n] \in ChainBlocks
    BY <1>1 DEF Height
<1>3. [fork |-> reorgs + 1, txs |-> {}] \in ChainBlocks
    BY <1>1 DEF ChainBlocks
<1>4. \A n \in 1..Height : chain'[n] \in ChainBlocks
    BY <1>1, <1>2, <1>3
<1>5. chain' \in Seq(ChainBlocks) /\ Height' = Height
  <2>1. chain' \in [1..Height -> ChainBlocks]
      BY <1>1, <1>2, <1>3
  <2>2. chain' \in Seq(ChainBlocks)
      BY <1>2, <2>1
  <2>3. DOMAIN chain' = 1..Height
      BY <1>1
  <2>4. Len(chain') = Height
      BY <1>2, <2>2, <2>3
  <2> QED
      BY <2>2, <2>4 DEF Height
<1>6. UNCHANGED <<buyable, intent, deposit, pooled, checkpoint, check>>
    BY DEF Reorg
<1>7. DepositTypes'
    BY <1>1, <1>5, <1>6 DEF DepositInv, DepositTypes
<1>8. ForksGrow'
    BY <1>1, <1>2, <1>5 DEF DepositInv, ForksGrow, ChainBlocks
<1>9. ChecksOK'
  <2>1. ASSUME NEW c \in Checkers
        PROVE  CheckOK(check[c])'
    <3>1. CheckOK(check[c]) /\ check'[c] = check[c] /\ check[c] \in Checks
        BY <1>6 DEF DepositInv, DepositTypes, ChecksOK
    <3> QED
        BY <1>1, <1>2, <1>5, <3>1 DEF CheckOK, Checks, ChainBlocks
  <2> QED
      BY <2>1 DEF ChecksOK
<1>10. CreditedDeep'
  <2>1. ASSUME NEW t \in Deposits, deposit'[t] = "CREDITED"
        PROVE  Flaw[t] = "NONE" /\ \E n \in 1..Height' : t \in chain'[n].txs /\ Height' - n + 1 >= Finality
    <3>1. PICK n \in 1..Height : t \in chain[n].txs /\ Height - n + 1 >= Finality
        BY <1>6, <2>1 DEF DepositInv, CreditedDeep
    <3>2. chain'[n] = chain[n]
        BY <1>1, <1>2, <3>1
    <3> QED
        BY <1>5, <1>6, <2>1, <3>1, <3>2 DEF DepositInv, CreditedDeep
  <2> QED
      BY <2>1 DEF CreditedDeep
<1>11. OneCredit' /\ FundedByDeposit' /\ PooledIsCredited'
    BY <1>6 DEF DepositInv, OneCredit, FundedByDeposit, PooledIsCredited
<1> QED
    BY <1>7, <1>8, <1>9, <1>10, <1>11 DEF DepositInv

-----------------------------------------------------------------------------
(* Verification *)

\* A step of one verification that changes nothing else.
LEMMA CheckMoves ==
    ASSUME DepositInv, NEW c \in Checkers, NEW x \in Checks, CheckOK(x), Step(c, x), checkpoint' \in Nat,
           UNCHANGED <<chain, reorgs, buyable, intent, deposit, pooled>>
    PROVE  DepositInv'
<1>1. check' = [check EXCEPT ![c] = x] /\ check \in [Checkers -> Checks]
    BY DEF Step, DepositInv, DepositTypes
<1>2. DepositTypes'
    BY <1>1 DEF DepositInv, DepositTypes
<1>3. ChecksOK'
  <2>1. ASSUME NEW d \in Checkers
        PROVE  CheckOK(check[d])'
    <3>1. CheckOK(check'[d])
        BY <1>1 DEF DepositInv, ChecksOK
    <3> QED
        BY <3>1 DEF CheckOK, Height
  <2> QED
      BY <2>1 DEF ChecksOK
<1>4. ForksGrow' /\ CreditedDeep'
    BY DEF DepositInv, ForksGrow, CreditedDeep, Height
<1>5. OneCredit' /\ FundedByDeposit' /\ PooledIsCredited'
    BY DEF DepositInv, OneCredit, FundedByDeposit, PooledIsCredited
<1> QED
    BY <1>2, <1>3, <1>4, <1>5 DEF DepositInv

\* getTransactionReceipt.
LEMMA ReceiptKeeps ==
    ASSUME DepositInv, NEW c \in Checkers, NEW t, ReadReceipt(c, t)
    PROVE  DepositInv'
<1>0. check[c] \in Checks /\ CheckOK(check[c]) /\ checkpoint' \in Nat /\ chain \in Seq(ChainBlocks) /\ ForksGrow
    BY DEF DepositInv, DepositTypes, ChecksOK, ReadReceipt
<1>1. CASE Blocks(t) = {}
  <2> DEFINE x == [check[c] EXCEPT !.todo = @ \ {t}]
  <2>1. x \in Checks /\ CheckOK(x) /\ Step(c, x)
      BY <1>0, <1>1 DEF Checks, CheckOK, ReadReceipt
  <2> QED
      BY <1>0, <2>1, CheckMoves DEF ReadReceipt
<1>2. CASE Blocks(t) # {}
  <2>1. PICK n \in Blocks(t) : Step(c, [check[c] EXCEPT !.phase = "receipt", !.tx = t, !.number = n, !.fork = chain[n].fork])
      BY <1>2 DEF ReadReceipt
  <2>2. n \in 1..Height /\ t \in chain[n].txs /\ chain[n] \in ChainBlocks /\ n \in Nat
      BY <1>0 DEF Blocks, Height
  <2> DEFINE x == [check[c] EXCEPT !.phase = "receipt", !.tx = t, !.number = n, !.fork = chain[n].fork]
  <2>3. x.phase = "receipt" /\ x.tx = t /\ x.number = n /\ x.fork = chain[n].fork
      BY <1>0 DEF Checks
  <2>4. t \in Deposits /\ chain[n].fork \in Nat
      BY <2>2 DEF ChainBlocks
  <2>5. x \in Checks
      BY <1>0, <2>2, <2>4 DEF Checks
  <2> HIDE DEF x
  <2>6. CheckOK(x)
      BY <1>0, <2>2, <2>3, <2>4 DEF CheckOK, ForksGrow
  <2> QED
      BY <1>0, <2>1, <2>5, <2>6, CheckMoves DEF ReadReceipt, x
<1> QED
    BY <1>1, <1>2

\* eth_blockNumber.
LEMMA HeadKeeps ==
    ASSUME DepositInv, NEW c \in Checkers, ReadHead(c)
    PROVE  DepositInv'
<1>1. /\ check[c] \in Checks /\ CheckOK(check[c]) /\ checkpoint' \in Nat /\ chain \in Seq(ChainBlocks)
      /\ check[c].phase = "receipt" /\ Height \in Nat
    BY DEF DepositInv, DepositTypes, ChecksOK, ReadHead, Height
<1> DEFINE x == [check[c] EXCEPT !.phase = "head", !.head = Height]
<1>2. x \in Checks /\ CheckOK(x)
  <2>1. x \in Checks
      BY <1>1 DEF Checks
  <2>2. /\ x.phase = "head" /\ x.head = Height /\ x.tx = check[c].tx /\ x.number = check[c].number
        /\ x.fork = check[c].fork
      BY <1>1 DEF Checks
  <2> HIDE DEF x
  <2> QED
      BY <1>1, <2>1, <2>2 DEF CheckOK
<1>3. Step(c, x)
    BY DEF ReadHead
<1> HIDE DEF x
<1> QED
    BY <1>1, <1>2, <1>3, CheckMoves DEF ReadHead

NoCheckOK == NoCheck \in Checks /\ CheckOK(NoCheck)

LEMMA NoCheckHolds == NoCheckOK
<1>1. NoCheck \in Checks
    BY DEF NoCheck, Checks
<1>2. NoCheck.phase = "idle"
    BY DEF NoCheck
<1>3. CheckOK(NoCheck)
    BY <1>2 DEF CheckOK
<1> QED
    BY <1>1, <1>3 DEF NoCheckOK

\* What a finished verification leaves behind constrains nothing.
LEMMA DoneChecks ==
    ASSUME DepositInv, NEW c \in Checkers, Done(c)
    PROVE  \E x \in Checks : CheckOK(x) /\ Step(c, x)
<1>1. check[c] \in Checks
    BY DEF DepositInv, DepositTypes
<1> DEFINE x == [NoCheck EXCEPT !.todo = check[c].todo \ {check[c].tx}, !.to = check[c].to,
                    !.phase = IF c = "buyer" THEN "idle" ELSE IF check[c].to > 0 THEN "range" ELSE "pending"]
<1>2. x \in Checks /\ CheckOK(x)
    BY <1>1 DEF NoCheck, Checks, CheckOK
<1> QED
    BY <1>2 DEF Done

-----------------------------------------------------------------------------
(* The indexer job *)

LEMMA JobKeeps ==
    ASSUME DepositInv, StartJob \/ ScanRange \/ ScanNext \/ ScanDone \/ \E t \in Deposits : RecheckPending(t)
    PROVE  DepositInv'
<1> DEFINE j == check["job"]
<1>0. /\ "job" \in Checkers /\ j \in Checks /\ CheckOK(j) /\ checkpoint \in Nat /\ chain \in Seq(ChainBlocks)
      /\ Height \in Nat
    BY DEF DepositInv, DepositTypes, ChecksOK, Height, Checkers
<1>1. CASE StartJob
  <2> DEFINE x == [NoCheck EXCEPT !.phase = "pending", !.todo = {t \in Deposits : deposit[t] = "PENDING_FINALITY"}]
  <2>1. x \in Checks /\ CheckOK(x)
      BY DEF NoCheck, Checks, CheckOK
  <2> QED
      BY <1>0, <1>1, <2>1, CheckMoves DEF StartJob
<1>2. CASE ScanRange
  <2>1. CASE checkpoint >= Height
      BY <1>0, <1>2, <2>1, NoCheckHolds, CheckMoves DEF ScanRange, NoCheckOK
  <2>2. CASE ~(checkpoint >= Height)
    <3> DEFINE seen == UNION {chain[n].txs : n \in (checkpoint + 1)..Height}
               x == [NoCheck EXCEPT !.phase = "range", !.to = Height, !.todo = seen]
    <3>1. seen \in SUBSET Deposits
      <4>1. \A n \in (checkpoint + 1)..Height : chain[n] \in ChainBlocks
          BY <1>0 DEF Height
      <4> QED
          BY <4>1 DEF ChainBlocks
    <3>2. Step("job", x)
        BY <1>2, <2>2 DEF ScanRange
    <3> HIDE DEF seen
    <3>3. x \in Checks /\ CheckOK(x)
        BY <1>0, <3>1 DEF NoCheck, Checks, CheckOK
    <3> QED
        BY <1>0, <1>2, <3>2, <3>3, CheckMoves DEF ScanRange
  <2> QED
      BY <2>1, <2>2
<1>3. CASE ScanNext
    BY <1>0, <1>3, ReceiptKeeps DEF ScanNext
<1>4. CASE ScanDone
  <2>1. Max({checkpoint, j.to}) \in Nat
    <3> DEFINE S == {checkpoint, j.to}
               top == IF checkpoint >= j.to THEN checkpoint ELSE j.to
    <3>1. S \in SUBSET Nat /\ top \in S /\ \A n \in S : top >= n
        BY <1>0 DEF Checks
    <3>2. \E m \in S : \A n \in S : m >= n
        BY <3>1
    <3> QED
        BY <3>1, <3>2 DEF Max
  <2> QED
      BY <1>0, <1>4, <2>1, NoCheckHolds, CheckMoves DEF ScanDone, NoCheckOK
<1>5. ASSUME NEW t \in Deposits, RecheckPending(t)
      PROVE  DepositInv'
  <2>1. CASE Blocks(t) # {}
      BY <1>0, <1>5, <2>1, ReceiptKeeps DEF RecheckPending
  <2>2. CASE Blocks(t) = {}
    <3> DEFINE x == [j EXCEPT !.phase = "gone", !.tx = t]
    <3>1. x \in Checks /\ CheckOK(x)
        BY <1>0 DEF Checks, CheckOK
    <3>2. Step("job", x) /\ checkpoint' \in Nat /\ UNCHANGED <<chain, reorgs, buyable, intent, deposit, pooled>>
        BY <1>0, <1>5, <2>2 DEF RecheckPending
    <3> HIDE DEF x
    <3> QED
        BY <1>0, <3>1, <3>2, CheckMoves
  <2> QED
      BY <2>1, <2>2
<1> QED
    BY <1>1, <1>2, <1>3, <1>4, <1>5

-----------------------------------------------------------------------------
(* The rows *)

\* A change of rows under which every credited deposit is an old one keeps the chain's part of the invariant.
LEMMA RowsMove ==
    ASSUME DepositInv, NEW c \in Checkers, NEW x \in Checks, CheckOK(x), Step(c, x),
           UNCHANGED <<chain, reorgs, checkpoint>>,
           buyable' \in {"AWAITING_PAYMENT", "FUNDED", "CLOSED"}, intent' \in [Intents -> IntentStates],
           deposit' \in [Deposits -> {"NONE", "PENDING_FINALITY"} \cup Decided]
    PROVE  DepositTypes' /\ ForksGrow' /\ ChecksOK'
<1>1. check' = [check EXCEPT ![c] = x] /\ check \in [Checkers -> Checks]
    BY DEF Step, DepositInv, DepositTypes
<1>2. DepositTypes'
    BY <1>1 DEF DepositInv, DepositTypes
<1>3. ChecksOK'
  <2>1. ASSUME NEW d \in Checkers
        PROVE  CheckOK(check[d])'
    <3>1. CheckOK(check'[d])
        BY <1>1 DEF DepositInv, ChecksOK
    <3> QED
        BY <3>1 DEF CheckOK, Height
  <2> QED
      BY <2>1 DEF ChecksOK
<1> QED
    BY <1>2, <1>3 DEF DepositInv, ForksGrow, Height

\* Rows that are neither credited nor uncredited: the credits, and what they paid for, stay.
LEMMA CreditsStay ==
    ASSUME DepositInv, UNCHANGED <<chain, buyable, pooled>>,
           \A t \in Deposits : deposit'[t] = "CREDITED" <=> deposit[t] = "CREDITED",
           \A i \in Intents : intent[i] = "CONFIRMED" => intent'[i] = "CONFIRMED"
    PROVE  CreditedDeep' /\ OneCredit' /\ FundedByDeposit' /\ PooledIsCredited'
<1>1. CreditedDeep'
    BY DEF DepositInv, CreditedDeep, Height
<1>2. OneCredit' /\ PooledIsCredited'
    BY DEF DepositInv, OneCredit, PooledIsCredited
<1>3. FundedByDeposit'
  <2>1. \A t \in Deposits : IntentOf[t] \in Intents
      BY DepositsAssumption
  <2> QED
      BY <2>1 DEF DepositInv, FundedByDeposit
<1> QED
    BY <1>1, <1>2, <1>3

LEMMA OrderMoves ==
    ASSUME DepositInv, CloseOrder \/ \E i \in OrderIntents : CreateCryptoPayment(i)
    PROVE  DepositInv'
<1>1. CASE CloseOrder
  <2>1. UNCHANGED <<chain, reorgs, intent, deposit, pooled, checkpoint, check>> /\ buyable' = "CLOSED"
      BY <1>1 DEF CloseOrder
  <2> QED
      BY <2>1 DEF DepositInv, DepositTypes, ForksGrow, ChecksOK, CheckOK, CreditedDeep, OneCredit, FundedByDeposit,
                  PooledIsCredited, Height
<1>2. ASSUME NEW i \in OrderIntents, CreateCryptoPayment(i)
      PROVE  DepositInv'
  <2>1. UNCHANGED <<chain, reorgs, buyable, deposit, pooled, checkpoint, check>> /\ buyable = "AWAITING_PAYMENT"
      BY <1>2 DEF CreateCryptoPayment
  <2>2. intent' \in [Intents -> IntentStates]
      BY <1>2 DEF CreateCryptoPayment, DepositInv, DepositTypes, IntentStates
  <2>3. FundedByDeposit'
      BY <2>1 DEF FundedByDeposit
  <2> QED
      BY <2>1, <2>2, <2>3 DEF DepositInv, DepositTypes, ForksGrow, ChecksOK, CheckOK, CreditedDeep, OneCredit,
                  PooledIsCredited, Height
<1> QED
    BY <1>1, <1>2

LEMMA MarkKeeps ==
    ASSUME DepositInv, MarkReorged
    PROVE  DepositInv'
<1> DEFINE t == check["job"].tx
           i == IntentOf[t]
<1>1. "job" \in Checkers /\ t \in Deposits /\ i \in Intents /\ Done("job")
    BY DepositsAssumption DEF Checkers, DepositInv, DepositTypes, ChecksOK, CheckOK, MarkReorged
<1>2. PICK x \in Checks : CheckOK(x) /\ Step("job", x)
    BY <1>1, DoneChecks
<1>3. intent \in [Intents -> IntentStates] /\ deposit \in [Deposits -> {"NONE", "PENDING_FINALITY"} \cup Decided]
    BY DEF DepositInv, DepositTypes
<1>4. UNCHANGED <<chain, reorgs, buyable, pooled, checkpoint>> /\ buyable \in {"AWAITING_PAYMENT", "FUNDED", "CLOSED"}
    BY DEF MarkReorged, DepositInv, DepositTypes
<1>5. /\ intent' \in [Intents -> IntentStates] /\ deposit' \in [Deposits -> {"NONE", "PENDING_FINALITY"} \cup Decided]
      /\ \A u \in Deposits : deposit'[u] = "CREDITED" <=> deposit[u] = "CREDITED"
      /\ \A k \in Intents : intent[k] = "CONFIRMED" => intent'[k] = "CONFIRMED"
  <2>1. CASE deposit[t] # "PENDING_FINALITY"
      BY <1>3, <2>1 DEF MarkReorged
  <2>2. CASE deposit[t] = "PENDING_FINALITY"
    <3>1. /\ deposit' = [deposit EXCEPT ![t] = "REORGED"]
          /\ intent' = IF intent[i] = "PENDING_FINALITY" THEN [intent EXCEPT ![i] = "AWAITING_DEPOSIT"] ELSE intent
        BY <2>2 DEF MarkReorged
    <3> QED
        BY <1>1, <1>3, <2>2, <3>1 DEF IntentStates, Decided
  <2> QED
      BY <2>1, <2>2
<1>6. DepositTypes' /\ ForksGrow' /\ ChecksOK'
    BY <1>1, <1>2, <1>4, <1>5, RowsMove
<1>7. CreditedDeep' /\ OneCredit' /\ FundedByDeposit' /\ PooledIsCredited'
    BY <1>4, <1>5, CreditsStay
<1> QED
    BY <1>6, <1>7 DEF DepositInv

\* A rejection or a wait for finality: the row was undecided and is not credited, an open intent moves on.
LEMMA UndecidedKeeps ==
    ASSUME DepositInv, NEW t \in Deposits, deposit[t] \notin Decided, NEW i \in Intents,
           Reject(t, i) \/ PendingFinality(t, i)
    PROVE  /\ intent' \in [Intents -> IntentStates]
           /\ deposit' \in [Deposits -> {"NONE", "PENDING_FINALITY"} \cup Decided]
           /\ \A u \in Deposits : deposit'[u] = "CREDITED" <=> deposit[u] = "CREDITED"
           /\ \A k \in Intents : intent[k] = "CONFIRMED" => intent'[k] = "CONFIRMED"
           /\ UNCHANGED <<buyable, pooled>>
<1>1. intent \in [Intents -> IntentStates] /\ deposit \in [Deposits -> {"NONE", "PENDING_FINALITY"} \cup Decided]
    BY DEF DepositInv, DepositTypes
<1>2. CASE Reject(t, i)
    BY <1>1, <1>2 DEF Reject, IntentStates, Decided, Open
<1>3. CASE PendingFinality(t, i)
    BY <1>1, <1>3 DEF PendingFinality, IntentStates, Decided
<1> QED
    BY <1>2, <1>3

\* A credit: final on the canonical chain, and the first of its intent.
LEMMA CreditKeeps ==
    ASSUME DepositInv, NEW t \in Deposits, deposit[t] \notin Decided, Flaw[t] = "NONE", ~Credited(IntentOf[t]),
           Credit(t, IntentOf[t]), UNCHANGED chain,
           \E n \in 1..Height : t \in chain[n].txs /\ Height - n + 1 >= Finality
    PROVE  /\ buyable' \in {"AWAITING_PAYMENT", "FUNDED", "CLOSED"} /\ intent' \in [Intents -> IntentStates]
           /\ deposit' \in [Deposits -> {"NONE", "PENDING_FINALITY"} \cup Decided]
           /\ CreditedDeep' /\ OneCredit' /\ FundedByDeposit' /\ PooledIsCredited'
<1> DEFINE i == IntentOf[t]
<1>1. /\ intent \in [Intents -> IntentStates] /\ deposit \in [Deposits -> {"NONE", "PENDING_FINALITY"} \cup Decided]
      /\ buyable \in {"AWAITING_PAYMENT", "FUNDED", "CLOSED"} /\ i \in Intents
    BY DepositsAssumption DEF DepositInv, DepositTypes
<1>2. deposit' = [deposit EXCEPT ![t] = "CREDITED"]
    BY DEF Credit
<1>3. \A u \in Deposits : deposit[u] = "CREDITED" => Flaw[u] = "NONE"
    BY DEF DepositInv, CreditedDeep
<1>4. \A u \in Deposits : deposit[u] = "CREDITED" => IntentOf[u] # i
    BY <1>3 DEF Credited
<1>5. \A u \in Deposits : deposit'[u] = "CREDITED" <=> u = t \/ deposit[u] = "CREDITED"
    BY <1>1, <1>2
<1>6. OneCredit'
    BY <1>4, <1>5 DEF DepositInv, OneCredit
<1>7. CreditedDeep'
    BY <1>5 DEF DepositInv, CreditedDeep, Height
<1>8. CASE i \in PoolIntents
  <2>1. pooled' = pooled \cup {t} /\ intent' = [intent EXCEPT ![i] = "CONFIRMED"] /\ buyable' = buyable
      BY <1>8 DEF Credit
  <2>2. PooledIsCredited'
      BY <1>5, <1>8, <2>1 DEF DepositInv, PooledIsCredited
  <2>3. FundedByDeposit'
      BY <1>1, <1>5, <2>1, DepositsAssumption DEF DepositInv, FundedByDeposit
  <2> QED
      BY <1>1, <1>2, <1>6, <1>7, <2>1, <2>2, <2>3 DEF IntentStates, Decided
<1>9. CASE i \notin PoolIntents
  <2>1. i \in OrderIntents /\ pooled' = pooled
      BY <1>1, <1>9 DEF Credit, Intents
  <2>2. PooledIsCredited'
      BY <1>5, <1>9, <2>1 DEF DepositInv, PooledIsCredited
  <2>3. CASE buyable = "AWAITING_PAYMENT"
    <3>1. buyable' = "FUNDED" /\ intent' = [intent EXCEPT ![i] = "CONFIRMED"]
        BY <1>9, <2>3 DEF Credit
    <3>2. FundedByDeposit'
        BY <1>1, <1>5, <2>1, <3>1 DEF FundedByDeposit
    <3> QED
        BY <1>1, <1>2, <1>6, <1>7, <2>2, <3>1, <3>2 DEF IntentStates, Decided
  <2>4. CASE buyable # "AWAITING_PAYMENT"
    <3>1. buyable' = buyable /\ intent' = [intent EXCEPT ![i] = "EXCEPTION"]
        BY <1>9, <2>4 DEF Credit
    <3>2. FundedByDeposit'
        BY <1>1, <1>4, <1>5, <3>1, DepositsAssumption DEF DepositInv, FundedByDeposit
    <3> QED
        BY <1>1, <1>2, <1>6, <1>7, <2>2, <3>1, <3>2 DEF IntentStates, Decided
  <2> QED
      BY <2>3, <2>4
<1> QED
    BY <1>8, <1>9

LEMMA EventKeeps ==
    ASSUME DepositInv, NEW c \in Checkers, ProcessEvent(c)
    PROVE  DepositInv'
<1> DEFINE t == check[c].tx
           i == IntentOf[t]
<1>1. /\ check[c] \in Checks /\ CheckOK(check[c]) /\ t \in Deposits /\ i \in Intents /\ Done(c)
      /\ check[c].phase = "head" /\ UNCHANGED <<chain, reorgs, checkpoint>>
    BY DepositsAssumption DEF DepositInv, DepositTypes, ChecksOK, CheckOK, ProcessEvent
<1>2. PICK x \in Checks : CheckOK(x) /\ Step(c, x)
    BY <1>1, DoneChecks
<1>3. intent \in [Intents -> IntentStates] /\ deposit \in [Deposits -> {"NONE", "PENDING_FINALITY"} \cup Decided]
    BY DEF DepositInv, DepositTypes
<1>4. buyable \in {"AWAITING_PAYMENT", "FUNDED", "CLOSED"}
    BY DEF DepositInv, DepositTypes
<1>5. CASE deposit[t] \in Decided
  <2>1. UNCHANGED <<deposit, intent, buyable, pooled>>
      BY <1>5 DEF ProcessEvent
  <2>2. DepositTypes' /\ ForksGrow' /\ ChecksOK'
      BY <1>1, <1>2, <1>3, <1>4, <2>1, RowsMove
  <2>3. CreditedDeep' /\ OneCredit' /\ FundedByDeposit' /\ PooledIsCredited'
      BY <1>1, <2>1, CreditsStay
  <2> QED
      BY <2>2, <2>3 DEF DepositInv
<1>6. CASE deposit[t] \notin Decided /\ (Reject(t, i) \/ PendingFinality(t, i))
  <2>1. /\ intent' \in [Intents -> IntentStates]
        /\ deposit' \in [Deposits -> {"NONE", "PENDING_FINALITY"} \cup Decided]
        /\ \A u \in Deposits : deposit'[u] = "CREDITED" <=> deposit[u] = "CREDITED"
        /\ \A k \in Intents : intent[k] = "CONFIRMED" => intent'[k] = "CONFIRMED"
        /\ UNCHANGED <<buyable, pooled>>
      BY <1>1, <1>6, UndecidedKeeps
  <2>2. DepositTypes' /\ ForksGrow' /\ ChecksOK'
      BY <1>1, <1>2, <1>4, <2>1, RowsMove
  <2>3. CreditedDeep' /\ OneCredit' /\ FundedByDeposit' /\ PooledIsCredited'
      BY <1>1, <2>1, CreditsStay
  <2> QED
      BY <2>2, <2>3 DEF DepositInv
<1>7. CASE deposit[t] \notin Decided /\ Flaw[t] = "NONE" /\ ~Credited(i) /\ IsFinal(c) /\ Credit(t, i)
  <2>1. \E n \in 1..Height : t \in chain[n].txs /\ Height - n + 1 >= Finality
    <3>1. Height \in Nat
        BY DEF DepositInv, DepositTypes, Height
    <3> QED
        BY <1>1, <1>7, <3>1, DepositsAssumption DEF CheckOK, IsFinal, Checks
  <2>2. /\ buyable' \in {"AWAITING_PAYMENT", "FUNDED", "CLOSED"} /\ intent' \in [Intents -> IntentStates]
        /\ deposit' \in [Deposits -> {"NONE", "PENDING_FINALITY"} \cup Decided]
        /\ CreditedDeep' /\ OneCredit' /\ FundedByDeposit' /\ PooledIsCredited'
      BY <1>1, <1>7, <2>1, CreditKeeps
  <2>3. DepositTypes' /\ ForksGrow' /\ ChecksOK'
      BY <1>1, <1>2, <2>2, RowsMove
  <2> QED
      BY <2>2, <2>3 DEF DepositInv
<1>8. \/ deposit[t] \in Decided
      \/ deposit[t] \notin Decided /\ (Reject(t, i) \/ PendingFinality(t, i))
      \/ deposit[t] \notin Decided /\ Flaw[t] = "NONE" /\ ~Credited(i) /\ IsFinal(c) /\ Credit(t, i)
    BY DEF ProcessEvent
<1> QED
    BY <1>5, <1>6, <1>7, <1>8

-----------------------------------------------------------------------------
(* The theorem *)

DepositSpec == DepositInit /\ [][DepositNext]_depositVars

LEMMA DepositInitHolds == DepositInit => DepositInv
<1> SUFFICES ASSUME DepositInit PROVE DepositInv
    OBVIOUS
<1>1. chain = <<>> /\ Height = 0
    BY DEF DepositInit, Height
<1>2. \A t \in Deposits : deposit[t] = "NONE"
    BY DEF DepositInit
<1>3. DepositTypes
    BY NoCheckHolds DEF DepositInit, DepositTypes, NoCheckOK, IntentStates
<1>4. ChecksOK
    BY NoCheckHolds DEF DepositInit, ChecksOK, NoCheckOK
<1>5. ForksGrow
    BY <1>1 DEF ForksGrow
<1>6. CreditedDeep /\ OneCredit /\ FundedByDeposit /\ PooledIsCredited
    BY <1>2 DEF DepositInit, CreditedDeep, OneCredit, FundedByDeposit, PooledIsCredited
<1> QED
    BY <1>3, <1>4, <1>5, <1>6 DEF DepositInv

LEMMA DepositNextKeeps == DepositInv /\ [DepositNext]_depositVars => DepositInv'
<1> SUFFICES ASSUME DepositInv, [DepositNext]_depositVars
             PROVE  DepositInv'
    OBVIOUS
<1> USE DEF Checkers
<1>1. ASSUME NEW ts \in SUBSET Deposits, AddBlock(ts) PROVE DepositInv'
    BY <1>1, AddBlockKeeps
<1>2. ASSUME NEW k \in 1..MaxBlocks, Reorg(k) PROVE DepositInv'
    BY <1>2, ReorgKeeps
<1>3. CASE CloseOrder \/ \E i \in OrderIntents : CreateCryptoPayment(i)
    BY <1>3, OrderMoves
<1>4. ASSUME NEW t \in Deposits, BuyerCheck(t) PROVE DepositInv'
    BY <1>4, ReceiptKeeps DEF BuyerCheck
<1>5. ASSUME NEW c \in Checkers, ReadHead(c) PROVE DepositInv'
    BY <1>5, HeadKeeps
<1>6. ASSUME NEW c \in Checkers, ProcessEvent(c) PROVE DepositInv'
    BY <1>6, EventKeeps
<1>7. CASE JobStep
    BY <1>5, <1>6, <1>7, JobKeeps, MarkKeeps DEF JobStep
<1>8. ASSUME NEW c \in Checkers, Unavailable(c) PROVE DepositInv'
  <2>1. checkpoint' \in Nat
      BY <1>8 DEF Unavailable, DepositInv, DepositTypes
  <2> QED
      BY <1>8, <2>1, NoCheckHolds, CheckMoves DEF Unavailable, NoCheckOK
<1>9. CASE UNCHANGED depositVars
    BY <1>9 DEF depositVars, DepositInv, DepositTypes, ForksGrow, ChecksOK, CheckOK, CreditedDeep, OneCredit,
                FundedByDeposit, PooledIsCredited, Height
<1> QED
    BY <1>1, <1>2, <1>3, <1>4, <1>5, <1>6, <1>7, <1>8, <1>9 DEF DepositNext

LEMMA DepositInvSuffices == DepositInv => CreditedIsFinal
<1> SUFFICES ASSUME DepositInv PROVE CreditedIsFinal
    OBVIOUS
<1> DEFINE credited(i) == {t \in Deposits : deposit[t] = "CREDITED" /\ IntentOf[t] = i}
<1>1. ASSUME NEW i \in Intents
      PROVE  Cardinality(credited(i)) <= 1 /\ \A t \in credited(i) : Blocks(t) # {}
  <2>1. \A t \in credited(i) : Blocks(t) # {}
      BY DEF DepositInv, CreditedDeep, Blocks
  <2>2. CASE credited(i) = {}
      BY <2>1, <2>2, FS_EmptySet
  <2>3. ASSUME NEW t \in credited(i)
        PROVE  Cardinality(credited(i)) <= 1
    <3>1. credited(i) = {t}
        BY <2>3 DEF DepositInv, OneCredit
    <3>2. Cardinality({t}) = 1
        BY FS_Singleton
    <3> QED
        BY <3>1, <3>2
  <2> QED
      BY <2>1, <2>2, <2>3
<1>2. buyable = "FUNDED" => \E i \in OrderIntents : credited(i) # {} /\ intent[i] = "CONFIRMED"
    BY DEF DepositInv, FundedByDeposit
<1>3. pooled = UNION {credited(i) : i \in PoolIntents}
    BY DEF DepositInv, PooledIsCredited
<1> QED
    BY <1>1, <1>2, <1>3 DEF CreditedIsFinal

\* verifyChainTransaction and indexChainDeposits (src/modules/crypto/deposits.ts): for every set of transactions, every
\* finality depth and every interleaving of the buyer's check, the job and reorganisations shallower than finality, a
\* credited deposit is on the canonical chain, each intent is credited at most once, and orders are funded and pools
\* raised by exactly those deposits.
THEOREM CreditsAreFinal == DepositSpec => []CreditedIsFinal
<1>1. DepositInit => DepositInv
    BY DepositInitHolds
<1>2. DepositInv /\ [DepositNext]_depositVars => DepositInv'
    BY DepositNextKeeps
<1>3. DepositInv => CreditedIsFinal
    BY DepositInvSuffices
<1> QED
    BY <1>1, <1>2, <1>3, PTL DEF DepositSpec
=============================================================================
