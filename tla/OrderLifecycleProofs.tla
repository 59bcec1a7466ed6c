----------------------- MODULE OrderLifecycleProofs -----------------------
(***************************************************************************)
(* Proofs about OrderLifecycle, for every amount, revision limit and bound *)
(* on disputes, retries and deadlines.                                     *)
(*                                                                         *)
(* The invariants of the order are inductive only together.  A refund that *)
(* is confirmed must find a cancelled order (MoneyFollowsOutcome) or the   *)
(* claim of an approved order would be freed twice (ClaimFollowsOrder);    *)
(* a dispute must know the state to resume (DisputeMatchesStatus) or the   *)
(* status leaves its type; a request is stale only if the version moved    *)
(* under it, which a settlement could do unless settlements wait for the   *)
(* outcome (MoneyFollowsOutcome again).                                    *)
(***************************************************************************)
EXTENDS OrderPage, TLAPS

\* A pending refund was requested under the reason its retry uses, or under an operator's.
RefundHasReason ==
    payment = "REFUND_PENDING" =>
        \/ refundReason = "OPERATOR_RESOLUTION"
        \/ refundReason = IF refundDue # NoAmount THEN "MUTUAL_CANCELLATION" ELSE "BUYER_CANCELED_BEFORE_WORK"

RowInv == ClaimFollowsOrder /\ DisputeMatchesStatus /\ MoneyFollowsOutcome /\ RefundHasReason

SideInv == RequestOnlyWhileWorking /\ HoldIsForReview /\ ProposalMatchesDeadline /\ DeliveriesAnswerRevisions

\* The inductive invariant.
IInv == TypeOK /\ RowInv /\ SideInv

\* TypeOK in two parts: the provers that know arithmetic are weak on Boolean columns.
Flags ==
    /\ brief \in BOOLEAN /\ consent \in BOOLEAN /\ viewed \in BOOLEAN /\ filesSafe \in BOOLEAN
    /\ dispute \in BOOLEAN /\ lateCase \in BOOLEAN

Columns ==
    /\ status \in Statuses /\ payment \in PaymentStatuses /\ settlement \in SettlementStatuses
    /\ method \in {"NONE", "CARD", "BANK_TRANSFER"} /\ version \in Nat
    /\ refundDue \in {NoAmount} \cup 0..Amount /\ before \in Working \cup {"NONE"}
    /\ claim \in ClaimStates
    /\ deliveryDue \in 0..MaxDue /\ revisionDue \in 0..MaxDue
    /\ revisions \in 0..RevisionLimit /\ delivery \in Nat
    /\ review \in {"NONE", "OPEN", "CLOSED"}
    /\ hold \in Holds /\ request \in Requests /\ amendment \in Amendments
    /\ disputes \in 0..MaxDisputes /\ refundReason \in RefundReasons

\* The two parts are the type invariant, in the next state too.
LEMMA TypeParts == (TypeOK <=> Columns /\ Flags) /\ (TypeOK' <=> Columns' /\ Flags')
BY Zenon DEF TypeOK, Columns, Flags

\* A new order satisfies the invariant.
LEMMA InitInv == Init => IInv
<1> SUFFICES ASSUME Init PROVE IInv
    OBVIOUS
<1> USE AmountAssumption, LimitAssumption, BoundAssumption DEF Init, Statuses, Working, PaymentStatuses, Unpaid,
    SettlementStatuses, ClaimStates, OpenHold, HoldReasons, RefundReasons, Holds, Requests, Amendments, NoHold, NoRequest,
    NoAmendment, NoAmount, Parties
<1>1. Columns
    BY DEF Columns
<1>2. Flags
    BY Zenon DEF Flags
<1>3. RowInv
    BY DEF RowInv, ClaimFollowsOrder, DisputeMatchesStatus, MoneyFollowsOutcome, RefundHasReason
<1>4. SideInv
    BY DEF SideInv, RequestOnlyWhileWorking, HoldIsForReview, ProposalMatchesDeadline, CurrentDeadline, DueOf,
        DeliveriesAnswerRevisions, WorkStatus
<1> QED
    BY <1>1, <1>2, <1>3, <1>4, TypeParts DEF IInv

\* Every command, job and payment fact preserves the invariant.
LEMMA StepInv == IInv /\ [Next]_vars => IInv'
<1> SUFFICES ASSUME IInv, [Next]_vars PROVE IInv'
    OBVIOUS
<1> USE AmountAssumption, LimitAssumption, BoundAssumption, TypeParts
    DEF IInv, RowInv, SideInv, rowVars, workVars, sideVars, Statuses, Working, PaymentStatuses, Unpaid,
        SettlementStatuses, ClaimStates, OpenHold, HoldReasons, RefundReasons, Holds, Requests, Amendments, NoHold, NoRequest,
        NoAmendment, NoAmount, Parties,
        ClaimFollowsOrder, DisputeMatchesStatus, MoneyFollowsOutcome, RefundHasReason,
        RequestOnlyWhileWorking, HoldIsForReview, ProposalMatchesDeadline, CurrentDeadline, DueOf,
            DeliveriesAnswerRevisions, WorkStatus
<1>1. CASE SubmitBrief
  <2>1. TypeOK'
    BY <1>1 DEF SubmitBrief, ClockAfter, TypeOK
  <2>2. RowInv'
    BY <1>1 DEF SubmitBrief, ClockAfter, TypeOK
  <2>3. SideInv'
    BY <1>1 DEF SubmitBrief, ClockAfter, TypeOK
  <2> QED
    BY <2>1, <2>2, <2>3
<1>2. CASE Start
  <2>1. TypeOK'
    BY <1>2 DEF Start, ToStatus, ClaimAfter, TypeOK
  <2>2. RowInv'
    BY <1>2 DEF Start, ToStatus, ClaimAfter, TypeOK
  <2>3. SideInv'
    BY <1>2 DEF Start, ToStatus, ClaimAfter, TypeOK
  <2> QED
    BY <2>1, <2>2, <2>3
<1>3. CASE Deliver
  <2>1. Columns'
    BY <1>3 DEF Deliver, ToStatus, ClaimAfter, CloseReview, Columns
  <2>2. Flags'
    BY <1>3, Zenon DEF Deliver, ToStatus, ClaimAfter, CloseReview, Flags
  <2>3. TypeOK'
    BY <2>1, <2>2
  <2>4. RowInv'
    BY <1>3 DEF Deliver, ToStatus, ClaimAfter, CloseReview, TypeOK
  <2>5. SideInv'
    BY <1>3 DEF Deliver, ToStatus, ClaimAfter, CloseReview, TypeOK
  <2> QED
    BY <2>3, <2>4, <2>5
<1>4. CASE \E seen \in 1..delivery : Revision(seen)
  <2>1. TypeOK'
    BY <1>4 DEF Revision, ToStatus, ClaimAfter, CloseReview, TypeOK
  <2>2. RowInv'
    BY <1>4 DEF Revision, ToStatus, ClaimAfter, CloseReview, TypeOK
  <2>3. SideInv'
    BY <1>4 DEF Revision, ToStatus, ClaimAfter, CloseReview, TypeOK
  <2> QED
    BY <2>1, <2>2, <2>3
<1>5. CASE \E seen \in 1..delivery : Approve(seen)
  <2>1. TypeOK'
    BY <1>5 DEF Approve, ApproveOrder, ToStatus, ClaimAfter, CloseReview, TypeOK
  <2>2. RowInv'
    BY <1>5 DEF Approve, ApproveOrder, ToStatus, ClaimAfter, CloseReview, TypeOK
  <2>3. SideInv'
    BY <1>5 DEF Approve, ApproveOrder, ToStatus, ClaimAfter, CloseReview, TypeOK
  <2> QED
    BY <2>1, <2>2, <2>3
<1>6. CASE OpenDispute
  <2>1. TypeOK'
    BY <1>6 DEF OpenDispute, ToStatus, ClaimAfter, CloseReview, TypeOK
  <2>2. RowInv'
    BY <1>6 DEF OpenDispute, ToStatus, ClaimAfter, CloseReview, TypeOK
  <2>3. SideInv'
    BY <1>6 DEF OpenDispute, ToStatus, ClaimAfter, CloseReview, TypeOK
  <2> QED
    BY <2>1, <2>2, <2>3
<1>7. CASE Cancel
  <2>1. TypeOK'
    BY <1>7 DEF Cancel, ToStatus, ClaimAfter, TypeOK
  <2>2. RowInv'
    BY <1>7 DEF Cancel, ToStatus, ClaimAfter, TypeOK
  <2>3. SideInv'
    BY <1>7 DEF Cancel, ToStatus, ClaimAfter, TypeOK
  <2> QED
    BY <2>1, <2>2, <2>3
<1>8. CASE \E actor \in Parties, refund \in 0..Amount : RequestCancellation(actor, refund)
  <2>1. TypeOK'
    BY <1>8 DEF RequestCancellation, TypeOK
  <2>2. RowInv'
    BY <1>8 DEF RequestCancellation, TypeOK
  <2>3. SideInv'
    BY <1>8 DEF RequestCancellation, TypeOK
  <2> QED
    BY <2>1, <2>2, <2>3
<1>9. CASE \E actor \in Parties : WithdrawCancellation(actor)
  <2>1. TypeOK'
    BY <1>9 DEF WithdrawCancellation, TypeOK
  <2>2. RowInv'
    BY <1>9 DEF WithdrawCancellation, TypeOK
  <2>3. SideInv'
    BY <1>9 DEF WithdrawCancellation, TypeOK
  <2> QED
    BY <2>1, <2>2, <2>3
<1>10. CASE \E actor \in Parties : RejectCancellation(actor)
  <2>1. TypeOK'
    BY <1>10 DEF RejectCancellation, MayAnswer, TypeOK
  <2>2. RowInv'
    BY <1>10 DEF RejectCancellation, MayAnswer, TypeOK
  <2>3. SideInv'
    BY <1>10 DEF RejectCancellation, MayAnswer, TypeOK
  <2> QED
    BY <2>1, <2>2, <2>3
<1>11. CASE \E actor \in Parties : AcceptCancellation(actor)
  <2>1. TypeOK'
    BY <1>11 DEF AcceptCancellation, MayAnswer, ToStatus, ClaimAfter, CloseReview, TypeOK
  <2>2. RowInv'
    BY <1>11 DEF AcceptCancellation, MayAnswer, ToStatus, ClaimAfter, CloseReview, TypeOK
  <2>3. SideInv'
    BY <1>11 DEF AcceptCancellation, MayAnswer, ToStatus, ClaimAfter, CloseReview, TypeOK
  <2> QED
    BY <2>1, <2>2, <2>3
<1>12. CASE MarkDeliveryViewed
  <2>1. TypeOK'
    BY <1>12 DEF MarkDeliveryViewed, TypeOK
  <2>2. RowInv'
    BY <1>12 DEF MarkDeliveryViewed, TypeOK
  <2>3. SideInv'
    BY <1>12 DEF MarkDeliveryViewed, TypeOK
  <2> QED
    BY <2>1, <2>2, <2>3
<1>13. CASE \E actor \in Parties, due \in 1..MaxDue : RequestDeadlineExtension(actor, due)
  <2>1. TypeOK'
    BY <1>13 DEF RequestDeadlineExtension, CurrentDeadline, DueOf, TypeOK
  <2>2. RowInv'
    BY <1>13 DEF RequestDeadlineExtension, CurrentDeadline, DueOf, TypeOK
  <2>3. SideInv'
    BY <1>13 DEF RequestDeadlineExtension, CurrentDeadline, DueOf, TypeOK
  <2> QED
    BY <2>1, <2>2, <2>3
<1>14. CASE \E actor \in Parties : AcceptDeadlineExtension(actor)
  <2>1. TypeOK'
    BY <1>14 DEF AcceptDeadlineExtension, CurrentDeadline, DueOf, TypeOK
  <2>2. RowInv'
    BY <1>14 DEF AcceptDeadlineExtension, CurrentDeadline, DueOf, TypeOK
  <2>3. SideInv'
    BY <1>14 DEF AcceptDeadlineExtension, CurrentDeadline, DueOf, TypeOK
  <2> QED
    BY <2>1, <2>2, <2>3
<1>15. CASE DropDeadlineExtension
  <2>1. TypeOK'
    BY <1>15 DEF DropDeadlineExtension, TypeOK
  <2>2. RowInv'
    BY <1>15 DEF DropDeadlineExtension, TypeOK
  <2>3. SideInv'
    BY <1>15 DEF DropDeadlineExtension, TypeOK
  <2> QED
    BY <2>1, <2>2, <2>3
<1>16. CASE QuarantineFile
  <2>1. Columns'
    BY <1>16 DEF QuarantineFile, Columns
  <2>2. Flags'
    BY <1>16, Zenon DEF QuarantineFile, Flags
  <2>3. TypeOK'
    BY <2>1, <2>2
  <2>4. RowInv'
    BY <1>16 DEF QuarantineFile, TypeOK
  <2>5. SideInv'
    BY <1>16 DEF QuarantineFile, TypeOK
  <2> QED
    BY <2>3, <2>4, <2>5
<1>17. CASE ResolveResume
  <2>1. Columns'
    BY <1>17 DEF ResolveResume, ToStatus, ClaimAfter, Columns
  <2>2. Flags'
    BY <1>17, Zenon DEF ResolveResume, ToStatus, ClaimAfter, Flags
  <2>3. TypeOK'
    BY <2>1, <2>2
  <2>4. RowInv'
    BY <1>17 DEF ResolveResume, ToStatus, ClaimAfter, TypeOK
  <2>5. SideInv'
    BY <1>17 DEF ResolveResume, ToStatus, ClaimAfter, TypeOK
  <2> QED
    BY <2>3, <2>4, <2>5
<1>18. CASE ResolveApprove
  <2>1. Columns'
    BY <1>18 DEF ResolveApprove, ApproveOrder, ToStatus, ClaimAfter, CloseReview, Columns
  <2>2. Flags'
    BY <1>18, Zenon DEF ResolveApprove, ApproveOrder, ToStatus, ClaimAfter, CloseReview, Flags
  <2>3. TypeOK'
    BY <2>1, <2>2
  <2>4. RowInv'
    BY <1>18 DEF ResolveApprove, ApproveOrder, ToStatus, ClaimAfter, CloseReview, TypeOK
  <2>5. SideInv'
    BY <1>18 DEF ResolveApprove, ApproveOrder, ToStatus, ClaimAfter, CloseReview, TypeOK
  <2> QED
    BY <2>3, <2>4, <2>5
<1>19. CASE \E refund \in 1..Amount : ResolveRefund(refund)
  <2>1. Columns'
    BY <1>19 DEF ResolveRefund, ToStatus, ClaimAfter, Columns
  <2>2. Flags'
    BY <1>19, Zenon DEF ResolveRefund, ToStatus, ClaimAfter, Flags
  <2>3. TypeOK'
    BY <2>1, <2>2
  <2>4. RowInv'
    BY <1>19 DEF ResolveRefund, ToStatus, ClaimAfter, TypeOK
  <2>5. SideInv'
    BY <1>19 DEF ResolveRefund, ToStatus, ClaimAfter, TypeOK
  <2> QED
    BY <2>3, <2>4, <2>5
<1>20. CASE RefundLateFunding
  <2>1. TypeOK'
    BY <1>20 DEF RefundLateFunding, TypeOK
  <2>2. RowInv'
    BY <1>20 DEF RefundLateFunding, TypeOK
  <2>3. SideInv'
    BY <1>20 DEF RefundLateFunding, TypeOK
  <2> QED
    BY <2>1, <2>2, <2>3
<1>21. CASE ResolveCase
  <2>1. Columns'
    BY <1>21 DEF ResolveCase, Columns
  <2>2. Flags'
    BY <1>21, Zenon DEF ResolveCase, Flags
  <2>3. TypeOK'
    BY <2>1, <2>2
  <2>4. RowInv'
    BY <1>21 DEF ResolveCase, TypeOK
  <2>5. SideInv'
    BY <1>21 DEF ResolveCase, TypeOK
  <2> QED
    BY <2>3, <2>4, <2>5
<1>22. CASE \E new \in {"PENDING", "PROCESSING", "FAILED"} : PaymentProgress(new)
  <2>1. TypeOK'
    BY <1>22 DEF PaymentProgress, TypeOK
  <2>2. RowInv'
    BY <1>22 DEF PaymentProgress, TypeOK
  <2>3. SideInv'
    BY <1>22 DEF PaymentProgress, TypeOK
  <2> QED
    BY <2>1, <2>2, <2>3
<1>23. CASE \E m \in {"CARD", "BANK_TRANSFER"} : PaymentConfirmed(m)
  <2>1. TypeOK'
    BY <1>23 DEF PaymentConfirmed, ClockAfter, TypeOK
  <2>2. RowInv'
    BY <1>23 DEF PaymentConfirmed, ClockAfter, TypeOK
  <2>3. SideInv'
    BY <1>23 DEF PaymentConfirmed, ClockAfter, TypeOK
  <2> QED
    BY <2>1, <2>2, <2>3
<1>24. CASE LateFunding
  <2>1. TypeOK'
    BY <1>24 DEF LateFunding, TypeOK
  <2>2. RowInv'
    BY <1>24 DEF LateFunding, TypeOK
  <2>3. SideInv'
    BY <1>24 DEF LateFunding, TypeOK
  <2> QED
    BY <2>1, <2>2, <2>3
<1>25. CASE HoldReconciling
  <2>1. TypeOK'
    BY <1>25 DEF HoldReconciling, TypeOK
  <2>2. RowInv'
    BY <1>25 DEF HoldReconciling, TypeOK
  <2>3. SideInv'
    BY <1>25 DEF HoldReconciling, TypeOK
  <2> QED
    BY <2>1, <2>2, <2>3
<1>26. CASE HoldExpired
  <2>1. TypeOK'
    BY <1>26 DEF HoldExpired, ToStatus, ClaimAfter, TypeOK
  <2>2. RowInv'
    BY <1>26 DEF HoldExpired, ToStatus, ClaimAfter, TypeOK
  <2>3. SideInv'
    BY <1>26 DEF HoldExpired, ToStatus, ClaimAfter, TypeOK
  <2> QED
    BY <2>1, <2>2, <2>3
<1>27. CASE BankReturned
  <2>1. TypeOK'
    BY <1>27 DEF BankReturned, ToStatus, ClaimAfter, TypeOK
  <2>2. RowInv'
    BY <1>27 DEF BankReturned, ToStatus, ClaimAfter, TypeOK
  <2>3. SideInv'
    BY <1>27 DEF BankReturned, ToStatus, ClaimAfter, TypeOK
  <2> QED
    BY <2>1, <2>2, <2>3
<1>28. CASE RefundConfirmed
  <2>1. TypeOK'
    BY <1>28 DEF RefundConfirmed, ToStatus, ClaimAfter, TypeOK
  <2>2. RowInv'
    BY <1>28 DEF RefundConfirmed, ToStatus, ClaimAfter, TypeOK
  <2>3. SideInv'
    BY <1>28 DEF RefundConfirmed, ToStatus, ClaimAfter, TypeOK
  <2> QED
    BY <2>1, <2>2, <2>3
<1>29. CASE ReleasePending
  <2>1. TypeOK'
    BY <1>29 DEF ReleasePending, TypeOK
  <2>2. RowInv'
    BY <1>29 DEF ReleasePending, TypeOK
  <2>3. SideInv'
    BY <1>29 DEF ReleasePending, TypeOK
  <2> QED
    BY <2>1, <2>2, <2>3
<1>30. CASE ReleaseConfirmed
  <2>1. TypeOK'
    BY <1>30 DEF ReleaseConfirmed, ToStatus, ClaimAfter, TypeOK
  <2>2. RowInv'
    BY <1>30 DEF ReleaseConfirmed, ToStatus, ClaimAfter, TypeOK
  <2>3. SideInv'
    BY <1>30 DEF ReleaseConfirmed, ToStatus, ClaimAfter, TypeOK
  <2> QED
    BY <2>1, <2>2, <2>3
<1>31. CASE ReleaseFailed
  <2>1. TypeOK'
    BY <1>31 DEF ReleaseFailed, TypeOK
  <2>2. RowInv'
    BY <1>31 DEF ReleaseFailed, TypeOK
  <2>3. SideInv'
    BY <1>31 DEF ReleaseFailed, TypeOK
  <2> QED
    BY <2>1, <2>2, <2>3
<1>32. CASE ReviewWindowCloses
  <2>1. TypeOK'
    BY <1>32 DEF ReviewWindowCloses, TypeOK
  <2>2. RowInv'
    BY <1>32 DEF ReviewWindowCloses, TypeOK
  <2>3. SideInv'
    BY <1>32 DEF ReviewWindowCloses, TypeOK
  <2> QED
    BY <2>1, <2>2, <2>3
<1>33. CASE AutoAcceptDeliveries
  <2>1. TypeOK'
    BY <1>33 DEF AutoAcceptDeliveries, AutoAcceptDue, AutoAcceptHold, ApproveOrder, ToStatus, ClaimAfter,
        CloseReview, TypeOK
  <2>2. RowInv'
    BY <1>33 DEF AutoAcceptDeliveries, AutoAcceptDue, AutoAcceptHold, ApproveOrder, ToStatus, ClaimAfter,
        CloseReview, TypeOK
  <2>3. SideInv'
    BY <1>33 DEF AutoAcceptDeliveries, AutoAcceptDue, AutoAcceptHold, ApproveOrder, ToStatus, ClaimAfter,
        CloseReview, TypeOK
  <2> QED
    BY <2>1, <2>2, <2>3
<1>34. CASE UNCHANGED vars
  <2>1. TypeOK'
    BY <1>34 DEF vars, TypeOK
  <2>2. RowInv'
    BY <1>34 DEF vars
  <2>3. SideInv'
    BY <1>34, Zenon DEF vars
  <2> QED
    BY <2>1, <2>2, <2>3
<1> QED
    BY <1>1, <1>2, <1>3, <1>4, <1>5, <1>6, <1>7, <1>8, <1>9, <1>10, <1>11, <1>12, <1>13, <1>14, <1>15, <1>16, <1>17,
        <1>18, <1>19, <1>20, <1>21, <1>22, <1>23, <1>24, <1>25, <1>26, <1>27, <1>28, <1>29, <1>30, <1>31, <1>32,
        <1>33, <1>34
    DEF Next, Command, Refund, Operator, PaymentFact

\* The invariant holds throughout.
THEOREM Invariance == Spec => []IInv
BY InitInv, StepInv, PTL DEF Spec

\* Every step is a step of the matrix.
LEMMA MatrixStep == IInv /\ [Next]_vars => [Matrix!Next]_<<status, version, claim>>
<1> SUFFICES ASSUME IInv, [Next]_vars
             PROVE  Matrix!Next \/ UNCHANGED <<status, version, claim>>
    OBVIOUS
<1> USE AmountAssumption, LimitAssumption, BoundAssumption
    DEF IInv, TypeOK, RowInv, rowVars, workVars, sideVars, Statuses, Working, PaymentStatuses, Unpaid,
        SettlementStatuses, ClaimStates, OpenHold, HoldReasons, RefundReasons, Holds, Requests, Amendments, NoHold, NoRequest,
        NoAmendment, NoAmount, Parties,
        ClaimFollowsOrder, DisputeMatchesStatus, MoneyFollowsOutcome,
        Matrix!Next, Matrix!StatusStep, Matrix!RowStep, Matrix!ClaimStep,
        Matrix!OrderTransitions, Matrix!ClaimTransitions
<1>1. CASE SubmitBrief
    BY <1>1 DEF SubmitBrief, ClockAfter
<1>2. CASE Start
    BY <1>2 DEF Start, ToStatus, ClaimAfter
<1>3. CASE Deliver
    BY <1>3 DEF Deliver, ToStatus, ClaimAfter, CloseReview
<1>4. CASE \E seen \in 1..delivery : Revision(seen)
    BY <1>4 DEF Revision, ToStatus, ClaimAfter, CloseReview
<1>5. CASE \E seen \in 1..delivery : Approve(seen)
    BY <1>5 DEF Approve, ApproveOrder, ToStatus, ClaimAfter, CloseReview
<1>6. CASE OpenDispute
    BY <1>6 DEF OpenDispute, ToStatus, ClaimAfter, CloseReview
<1>7. CASE Cancel
    BY <1>7 DEF Cancel, ToStatus, ClaimAfter
<1>8. CASE \E actor \in Parties, refund \in 0..Amount : RequestCancellation(actor, refund)
    BY <1>8 DEF RequestCancellation
<1>9. CASE \E actor \in Parties : WithdrawCancellation(actor)
    BY <1>9 DEF WithdrawCancellation
<1>10. CASE \E actor \in Parties : RejectCancellation(actor)
    BY <1>10 DEF RejectCancellation, MayAnswer
<1>11. CASE \E actor \in Parties : AcceptCancellation(actor)
    BY <1>11 DEF AcceptCancellation, MayAnswer, ToStatus, ClaimAfter, CloseReview
<1>12. CASE MarkDeliveryViewed
    BY <1>12 DEF MarkDeliveryViewed
<1>13. CASE \E actor \in Parties, due \in 1..MaxDue : RequestDeadlineExtension(actor, due)
    BY <1>13 DEF RequestDeadlineExtension, CurrentDeadline, DueOf
<1>14. CASE \E actor \in Parties : AcceptDeadlineExtension(actor)
    BY <1>14 DEF AcceptDeadlineExtension, CurrentDeadline, DueOf
<1>15. CASE DropDeadlineExtension
    BY <1>15 DEF DropDeadlineExtension
<1>16. CASE QuarantineFile
    BY <1>16 DEF QuarantineFile
<1>17. CASE ResolveResume
    BY <1>17 DEF ResolveResume, ToStatus, ClaimAfter
<1>18. CASE ResolveApprove
    BY <1>18 DEF ResolveApprove, ApproveOrder, ToStatus, ClaimAfter, CloseReview
<1>19. CASE \E refund \in 1..Amount : ResolveRefund(refund)
    BY <1>19 DEF ResolveRefund, ToStatus, ClaimAfter
<1>20. CASE RefundLateFunding
    BY <1>20 DEF RefundLateFunding
<1>21. CASE ResolveCase
    BY <1>21 DEF ResolveCase
<1>22. CASE \E new \in {"PENDING", "PROCESSING", "FAILED"} : PaymentProgress(new)
    BY <1>22 DEF PaymentProgress
<1>23. CASE \E m \in {"CARD", "BANK_TRANSFER"} : PaymentConfirmed(m)
    BY <1>23 DEF PaymentConfirmed, ClockAfter
<1>24. CASE LateFunding
    BY <1>24 DEF LateFunding
<1>25. CASE HoldReconciling
    BY <1>25 DEF HoldReconciling
<1>26. CASE HoldExpired
    BY <1>26 DEF HoldExpired, ToStatus, ClaimAfter
<1>27. CASE BankReturned
    BY <1>27 DEF BankReturned, ToStatus, ClaimAfter
<1>28. CASE RefundConfirmed
    BY <1>28 DEF RefundConfirmed, ToStatus, ClaimAfter
<1>29. CASE ReleasePending
    BY <1>29 DEF ReleasePending
<1>30. CASE ReleaseConfirmed
    BY <1>30 DEF ReleaseConfirmed, ToStatus, ClaimAfter
<1>31. CASE ReleaseFailed
    BY <1>31 DEF ReleaseFailed
<1>32. CASE ReviewWindowCloses
    BY <1>32 DEF ReviewWindowCloses
<1>33. CASE AutoAcceptDeliveries
    BY <1>33 DEF AutoAcceptDeliveries, AutoAcceptDue, AutoAcceptHold, ApproveOrder, ToStatus, ClaimAfter, CloseReview
<1>34. CASE UNCHANGED vars
    BY <1>34 DEF vars
<1> QED
    BY <1>1, <1>2, <1>3, <1>4, <1>5, <1>6, <1>7, <1>8, <1>9, <1>10, <1>11, <1>12, <1>13, <1>14, <1>15, <1>16, <1>17,
        <1>18, <1>19, <1>20, <1>21, <1>22, <1>23, <1>24, <1>25, <1>26, <1>27, <1>28, <1>29, <1>30, <1>31, <1>32,
        <1>33, <1>34
    DEF Next, Command, Refund, Operator, PaymentFact

\* Every step is a money move or leaves the money alone.
LEMMA MoneyStep == IInv /\ [Next]_vars => [Money!Next]_Money!moneyVars
<1> SUFFICES ASSUME IInv, [Next]_vars
             PROVE  Money!Next \/ UNCHANGED Money!moneyVars
    BY DEF Money!moneyVars
<1> USE AmountAssumption, LimitAssumption, BoundAssumption
    DEF IInv, TypeOK, RowInv, rowVars, workVars, sideVars, Statuses, Working, PaymentStatuses, Unpaid,
        SettlementStatuses, ClaimStates, OpenHold, HoldReasons, RefundReasons, Holds, Requests, Amendments, NoHold, NoRequest,
        NoAmendment, NoAmount, Parties,
        ClaimFollowsOrder, DisputeMatchesStatus, MoneyFollowsOutcome,
        Money!Next, Money!Attempt, Money!Fund, Money!Work, Money!CancelBeforeWork, Money!Approve, Money!Agree,
            Money!Decide,
        Money!RefundLate, Money!Returned, Money!Refunded, Money!Settle, Money!Unpaid, Money!NoAmount, Money!moneyVars
<1>1. CASE SubmitBrief
    BY <1>1 DEF SubmitBrief, ClockAfter
<1>2. CASE Start
    BY <1>2 DEF Start, ToStatus, ClaimAfter
<1>3. CASE Deliver
    BY <1>3 DEF Deliver, ToStatus, ClaimAfter, CloseReview
<1>4. CASE \E seen \in 1..delivery : Revision(seen)
    BY <1>4 DEF Revision, ToStatus, ClaimAfter, CloseReview
<1>5. CASE \E seen \in 1..delivery : Approve(seen)
    BY <1>5 DEF Approve, ApproveOrder, ToStatus, ClaimAfter, CloseReview
<1>6. CASE OpenDispute
    BY <1>6 DEF OpenDispute, ToStatus, ClaimAfter, CloseReview
<1>7. CASE Cancel
    BY <1>7 DEF Cancel, ToStatus, ClaimAfter
<1>8. CASE \E actor \in Parties, refund \in 0..Amount : RequestCancellation(actor, refund)
    BY <1>8 DEF RequestCancellation
<1>9. CASE \E actor \in Parties : WithdrawCancellation(actor)
    BY <1>9 DEF WithdrawCancellation
<1>10. CASE \E actor \in Parties : RejectCancellation(actor)
    BY <1>10 DEF RejectCancellation, MayAnswer
<1>11. CASE \E actor \in Parties : AcceptCancellation(actor)
    BY <1>11 DEF AcceptCancellation, MayAnswer, ToStatus, ClaimAfter, CloseReview
<1>12. CASE MarkDeliveryViewed
    BY <1>12 DEF MarkDeliveryViewed
<1>13. CASE \E actor \in Parties, due \in 1..MaxDue : RequestDeadlineExtension(actor, due)
    BY <1>13 DEF RequestDeadlineExtension, CurrentDeadline, DueOf
<1>14. CASE \E actor \in Parties : AcceptDeadlineExtension(actor)
    BY <1>14 DEF AcceptDeadlineExtension, CurrentDeadline, DueOf
<1>15. CASE DropDeadlineExtension
    BY <1>15 DEF DropDeadlineExtension
<1>16. CASE QuarantineFile
    BY <1>16 DEF QuarantineFile
<1>17. CASE ResolveResume
    BY <1>17 DEF ResolveResume, ToStatus, ClaimAfter
<1>18. CASE ResolveApprove
    BY <1>18 DEF ResolveApprove, ApproveOrder, ToStatus, ClaimAfter, CloseReview
<1>19. CASE \E refund \in 1..Amount : ResolveRefund(refund)
    BY <1>19 DEF ResolveRefund, ToStatus, ClaimAfter
<1>20. CASE RefundLateFunding
    BY <1>20 DEF RefundLateFunding
<1>21. CASE ResolveCase
    BY <1>21 DEF ResolveCase
<1>22. CASE \E new \in {"PENDING", "PROCESSING", "FAILED"} : PaymentProgress(new)
    BY <1>22 DEF PaymentProgress
<1>23. CASE \E m \in {"CARD", "BANK_TRANSFER"} : PaymentConfirmed(m)
    BY <1>23 DEF PaymentConfirmed, ClockAfter
<1>24. CASE LateFunding
    BY <1>24 DEF LateFunding
<1>25. CASE HoldReconciling
    BY <1>25 DEF HoldReconciling
<1>26. CASE HoldExpired
    BY <1>26 DEF HoldExpired, ToStatus, ClaimAfter
<1>27. CASE BankReturned
    BY <1>27 DEF BankReturned, ToStatus, ClaimAfter
<1>28. CASE RefundConfirmed
    BY <1>28 DEF RefundConfirmed, ToStatus, ClaimAfter
<1>29. CASE ReleasePending
    BY <1>29 DEF ReleasePending
<1>30. CASE ReleaseConfirmed
    BY <1>30 DEF ReleaseConfirmed, ToStatus, ClaimAfter
<1>31. CASE ReleaseFailed
    BY <1>31 DEF ReleaseFailed
<1>32. CASE ReviewWindowCloses
    BY <1>32 DEF ReviewWindowCloses
<1>33. CASE AutoAcceptDeliveries
    BY <1>33 DEF AutoAcceptDeliveries, AutoAcceptDue, AutoAcceptHold, ApproveOrder, ToStatus, ClaimAfter, CloseReview
<1>34. CASE UNCHANGED vars
    BY <1>34 DEF vars
<1> QED
    BY <1>1, <1>2, <1>3, <1>4, <1>5, <1>6, <1>7, <1>8, <1>9, <1>10, <1>11, <1>12, <1>13, <1>14, <1>15, <1>16, <1>17,
        <1>18, <1>19, <1>20, <1>21, <1>22, <1>23, <1>24, <1>25, <1>26, <1>27, <1>28, <1>29, <1>30, <1>31, <1>32,
        <1>33, <1>34
    DEF Next, Command, Refund, Operator, PaymentFact

\* A new order is in an initial state of the matrix and of the money moves.
LEMMA InitRefines == Init => Matrix!Init /\ Money!Init
BY DEF Init, Matrix!Init, Money!Init, Working, NoAmount, Money!NoAmount

-----------------------------------------------------------------------------
(* The theorems *)

\* Every column of an order keeps its domain, whatever the parties, jobs, operators and the provider do; the revision
\* limit of the terms is never exceeded.
THEOREM TypeCorrect == Spec => []TypeOK
BY Invariance, PTL DEF IInv

\* The creator's units are held while the order is unpaid, active while it may need work and given back once.
THEOREM ClaimsFollowOrders == Spec => []ClaimFollowsOrder
BY Invariance, PTL DEF IInv, RowInv

\* A dispute is open exactly while the order is DISPUTED and can always be resumed to a working state.
THEOREM DisputesMatchStatus == Spec => []DisputeMatchesStatus
BY Invariance, PTL DEF IInv, RowInv

\* Settlements and refunds exist only for outcomes that justify them.
THEOREM MoneyFollowsOutcomes == Spec => []MoneyFollowsOutcome
BY Invariance, PTL DEF IInv, RowInv

\* A pending cancellation request never outlives the work, and one that stops auto-acceptance can be answered.
THEOREM RequestsOnlyWhileWorking == Spec => []RequestOnlyWhileWorking
BY Invariance, PTL DEF IInv, SideInv

\* A review hold is about the delivery under review; a view always lifts a hold for missing evidence.
THEOREM HoldsAreForReview == Spec => []HoldIsForReview
BY Invariance, PTL DEF IInv, SideInv

\* An open deadline proposal is against the deadline as it stands.
THEOREM ProposalsMatchDeadlines == Spec => []ProposalMatchesDeadline
BY Invariance, PTL DEF IInv, SideInv

\* Deliveries and revision requests alternate across disputes; nothing is approved without a delivery.
THEOREM DeliveriesAnswerAllRevisions == Spec => []DeliveriesAnswerRevisions
BY Invariance, PTL DEF IInv, SideInv

\* The claim, dispute, request, hold, proposal and deliveries of an order agree with its status at every moment.
THEOREM SideRecordsAlwaysAgree == Spec => []SideRecordsAgree
<1>1. IInv => SideRecordsAgree
    BY DEF IInv, RowInv, SideInv, SideRecordsAgree
<1> QED
    BY Invariance, <1>1, PTL

\* No command, job or payment fact ever trips app.order_transition_guard or app.workload_claim_guard.
THEOREM ImplementsMatrix == Spec => MatrixRespected
<1>1. Init => Matrix!Init
    BY InitRefines
<1> QED
    BY <1>1, Invariance, MatrixStep, PTL DEF Spec, MatrixRespected, Matrix!Spec

\* Every step of an order makes one of the money moves of OrderMoney or none.
THEOREM ImplementsMoney == Spec => MoneyMovesRespected
<1>1. Init => Money!Init
    BY InitRefines
<1> QED
    BY <1>1, Invariance, MoneyStep, PTL DEF Spec, MoneyMovesRespected, Money!Spec

LEMMA RecordsKept == IInv /\ [Money!Next]_(Money!moneyVars) => [Money!Recorded]_(Money!moneyVars)
<1> SUFFICES ASSUME IInv, Money!Next
             PROVE  Money!Recorded
    OBVIOUS
<1> DEFINE stage == IF status \in Working \cup {"DISPUTED"} THEN "WORKING" ELSE status
<1>1. MoneyFollowsOutcome
    BY DEF IInv, RowInv
<1>2. /\ stage \in {"AWAITING_PAYMENT", "FUNDED", "WORKING"} => status \notin {"APPROVED", "COMPLETED", "CANCELLED", "REFUNDED"}
      /\ stage \in {"COMPLETED", "REFUNDED"} => status = stage
    BY DEF Working
<1>3. /\ stage \in {"AWAITING_PAYMENT", "FUNDED", "WORKING"} =>
             settlement = "NOT_READY" /\ payment \notin {"REFUNDED", "PARTIALLY_REFUNDED"} /\ refundDue = NoAmount
      /\ stage = "COMPLETED" => settlement = "RELEASED"
      /\ stage = "REFUNDED" => settlement = "NOT_READY" /\ payment = "REFUNDED"
  <2> HIDE DEF stage
  <2> QED
      BY <1>1, <1>2 DEF MoneyFollowsOutcome
<1> USE DEF Money!Recorded, Money!NoAmount, NoAmount
<1>4. CASE Money!Attempt
    BY <1>3, <1>4 DEF Money!Attempt
<1>5. CASE Money!Fund \/ Money!Work \/ Money!CancelBeforeWork \/ Money!Approve
    BY <1>3, <1>5 DEF Money!Fund, Money!Work, Money!CancelBeforeWork, Money!Approve
<1>6. CASE (\E refund \in 0..Amount : Money!Agree(refund)) \/ \E refund \in 1..Amount : Money!Decide(refund)
    BY <1>3, <1>6 DEF Money!Agree, Money!Decide
<1>7. CASE Money!RefundLate \/ Money!Returned \/ Money!Refunded
    BY <1>3, <1>7 DEF Money!RefundLate, Money!Unpaid, Money!Returned, Money!Refunded
<1>8. CASE Money!Settle
    BY <1>3, <1>8 DEF Money!Settle
<1> QED
    BY <1>4, <1>5, <1>6, <1>7, <1>8 DEF Money!Next

\* No command, job or operator decision, in any order with the facts of the provider, takes back a recorded release or
\* refund, renegotiates the refund that was agreed on, or leaves COMPLETED or REFUNDED.
THEOREM RecordsNeverTakenBack == Spec => Money!RecordedStays
    BY Invariance, ImplementsMoney, RecordsKept, PTL DEF MoneyMovesRespected, Money!Spec, Money!RecordedStays

-----------------------------------------------------------------------------
(***************************************************************************)
(* The order page.  A form shown exactly when the command would pass is    *)
(* not a matter of equal conditions: the page decides on the status and on *)
(* which rows are pending, the command on versions, numbers of deliveries  *)
(* and deadlines.  That the two agree takes the invariant.                 *)
(***************************************************************************)

\* The panels of a page are records with different forms, so a form is offered when its own panel offers it.
LEMMA OfferedByPanel ==
    ASSUME NEW p, NEW c
    PROVE  /\ c \in {"submit_brief", "start", "approve", "revision", "dispute", "cancel", "withdraw_cancellation",
                     "accept_cancellation", "reject_cancellation", "request_cancellation", "refund"}
                 => (Offered(p, c) <=> NextStepOffers(p, GetOrderData)[c])
           /\ c = "deliver" => (Offered(p, c) <=> DeliveryOffers(p, GetOrderData)[c])
           /\ c \in {"withdraw_extension", "accept_extension", "reject_extension", "request_extension"}
                 => (Offered(p, c) <=> DeadlineOffers(p, GetOrderData)[c])
<1> DEFINE next == NextStepOffers(p, GetOrderData)
           deliver == DeliveryOffers(p, GetOrderData)
           deadline == DeadlineOffers(p, GetOrderData)
<1>1. DOMAIN next = {"submit_brief", "start", "approve", "revision", "dispute", "cancel", "withdraw_cancellation",
                     "accept_cancellation", "reject_cancellation", "request_cancellation", "refund"}
    BY DEF NextStepOffers
<1>2. DOMAIN deliver = {"deliver"}
    BY DEF DeliveryOffers
<1>3. DOMAIN deadline = {"withdraw_extension", "accept_extension", "reject_extension", "request_extension"}
    BY DEF DeadlineOffers
<1>4. Offered(p, c) <=> \/ c \in DOMAIN next /\ next[c]
                        \/ c \in DOMAIN deliver /\ deliver[c]
                        \/ c \in DOMAIN deadline /\ deadline[c]
    BY Zenon DEF Offered
<1> HIDE DEF next, deliver, deadline
<1>5. /\ c \in DOMAIN next => c \notin DOMAIN deliver /\ c \notin DOMAIN deadline
      /\ c \in DOMAIN deliver => c \notin DOMAIN next /\ c \notin DOMAIN deadline
      /\ c \in DOMAIN deadline => c \notin DOMAIN deliver /\ c \notin DOMAIN next
    BY <1>1, <1>2, <1>3
<1>6. /\ c \in DOMAIN next => (Offered(p, c) <=> next[c])
      /\ c \in DOMAIN deliver => (Offered(p, c) <=> deliver[c])
      /\ c \in DOMAIN deadline => (Offered(p, c) <=> deadline[c])
    BY <1>4, <1>5, Zenon
<1> QED
    BY <1>1, <1>2, <1>3, <1>6 DEF next, deliver, deadline

\* What the page decides on, form by form.
LEMMA OfferedWhen ==
    ASSUME NEW p
    PROVE  /\ Offered(p, "submit_brief") <=> p = "buyer" /\ ~brief /\ status \in {"AWAITING_PAYMENT", "FUNDED"}
           /\ Offered(p, "start") <=> p = "creator" /\ status = "FUNDED" /\ brief
           /\ Offered(p, "approve") <=> p = "buyer" /\ status = "DELIVERED" /\ delivery > 0
           /\ Offered(p, "revision") <=> p = "buyer" /\ status = "DELIVERED" /\ delivery > 0 /\ RevisionLimit - revisions > 0
           /\ Offered(p, "dispute") <=> p \in Parties /\ status \in Working
           /\ Offered(p, "cancel") <=> p \in Parties /\ status \in {"AWAITING_PAYMENT", "FUNDED"}
           /\ Offered(p, "refund") <=> p = "buyer" /\ status = "CANCELLED" /\ payment = "REFUND_PENDING"
           /\ Offered(p, "request_cancellation") <=> request.by = "none" /\ p \in Parties /\ status \in Working
           /\ Offered(p, "withdraw_cancellation") <=> request.by # "none" /\ p = request.by
           /\ Offered(p, "accept_cancellation") <=> request.by # "none" /\ p # request.by
           /\ Offered(p, "reject_cancellation") <=> request.by # "none" /\ p # request.by
           /\ Offered(p, "deliver") <=> p = "creator" /\ status \in {"IN_PROGRESS", "REVISION_REQUESTED"}
           /\ Offered(p, "request_extension") <=> /\ amendment.by = "none"
                                                  /\ \/ status \in {"FUNDED", "IN_PROGRESS"} /\ deliveryDue > 0
                                                     \/ status = "REVISION_REQUESTED" /\ revisionDue > 0
           /\ Offered(p, "withdraw_extension") <=> amendment.by # "none" /\ p = amendment.by
           /\ Offered(p, "accept_extension") <=> amendment.by # "none" /\ p # amendment.by
           /\ Offered(p, "reject_extension") <=> amendment.by # "none" /\ p # amendment.by
<1>1. /\ NextStepOffers(p, GetOrderData).submit_brief <=> p = "buyer" /\ ~brief /\ status \in {"AWAITING_PAYMENT", "FUNDED"}
      /\ NextStepOffers(p, GetOrderData).start <=> p = "creator" /\ status = "FUNDED" /\ brief
      /\ NextStepOffers(p, GetOrderData).approve <=> p = "buyer" /\ status = "DELIVERED" /\ delivery > 0
      /\ NextStepOffers(p, GetOrderData).revision <=> p = "buyer" /\ status = "DELIVERED" /\ delivery > 0 /\ RevisionLimit - revisions > 0
      /\ NextStepOffers(p, GetOrderData).dispute <=> p \in Parties /\ status \in Working
      /\ NextStepOffers(p, GetOrderData).cancel <=> p \in Parties /\ status \in {"AWAITING_PAYMENT", "FUNDED"}
      /\ NextStepOffers(p, GetOrderData).refund <=> p = "buyer" /\ status = "CANCELLED" /\ payment = "REFUND_PENDING"
      /\ NextStepOffers(p, GetOrderData).request_cancellation <=> request.by = "none" /\ p \in Parties /\ status \in Working
      /\ NextStepOffers(p, GetOrderData).withdraw_cancellation <=> request.by # "none" /\ p = request.by
      /\ NextStepOffers(p, GetOrderData).accept_cancellation <=> request.by # "none" /\ p # request.by
      /\ NextStepOffers(p, GetOrderData).reject_cancellation <=> request.by # "none" /\ p # request.by
    BY Zenon DEF NextStepOffers, GetOrderData
<1>2. /\ Offered(p, "submit_brief") <=> NextStepOffers(p, GetOrderData).submit_brief
      /\ Offered(p, "start") <=> NextStepOffers(p, GetOrderData).start
      /\ Offered(p, "approve") <=> NextStepOffers(p, GetOrderData).approve
      /\ Offered(p, "revision") <=> NextStepOffers(p, GetOrderData).revision
      /\ Offered(p, "dispute") <=> NextStepOffers(p, GetOrderData).dispute
      /\ Offered(p, "cancel") <=> NextStepOffers(p, GetOrderData).cancel
      /\ Offered(p, "refund") <=> NextStepOffers(p, GetOrderData).refund
      /\ Offered(p, "request_cancellation") <=> NextStepOffers(p, GetOrderData).request_cancellation
      /\ Offered(p, "withdraw_cancellation") <=> NextStepOffers(p, GetOrderData).withdraw_cancellation
      /\ Offered(p, "accept_cancellation") <=> NextStepOffers(p, GetOrderData).accept_cancellation
      /\ Offered(p, "reject_cancellation") <=> NextStepOffers(p, GetOrderData).reject_cancellation
    BY OfferedByPanel
<1>3. /\ DeliveryOffers(p, GetOrderData).deliver <=> p = "creator" /\ status \in {"IN_PROGRESS", "REVISION_REQUESTED"}
    BY Zenon DEF DeliveryOffers, GetOrderData
<1>4. /\ Offered(p, "deliver") <=> DeliveryOffers(p, GetOrderData).deliver
    BY OfferedByPanel
<1>5. /\ DeadlineOffers(p, GetOrderData).request_extension <=> /\ amendment.by = "none"
                                                               /\ \/ status \in {"FUNDED", "IN_PROGRESS"} /\ deliveryDue > 0
                                                                  \/ status = "REVISION_REQUESTED" /\ revisionDue > 0
      /\ DeadlineOffers(p, GetOrderData).withdraw_extension <=> amendment.by # "none" /\ p = amendment.by
      /\ DeadlineOffers(p, GetOrderData).accept_extension <=> amendment.by # "none" /\ p # amendment.by
      /\ DeadlineOffers(p, GetOrderData).reject_extension <=> amendment.by # "none" /\ p # amendment.by
    BY Zenon DEF DeadlineOffers, GetOrderData
<1>6. /\ Offered(p, "request_extension") <=> DeadlineOffers(p, GetOrderData).request_extension
      /\ Offered(p, "withdraw_extension") <=> DeadlineOffers(p, GetOrderData).withdraw_extension
      /\ Offered(p, "accept_extension") <=> DeadlineOffers(p, GetOrderData).accept_extension
      /\ Offered(p, "reject_extension") <=> DeadlineOffers(p, GetOrderData).reject_extension
    BY OfferedByPanel
<1> QED
    BY <1>1, <1>2, <1>3, <1>4, <1>5, <1>6, Zenon

\* The forms of the work itself: brief, start, delivery, approval, revision, dispute, cancellation before the start and
\* the refund that follows it, whose retry the journal takes only under the reason of the first request.
LEMMA WorkFormsMatch ==
    ASSUME IInv, NEW p \in Parties, Opened(p), NEW c \in Forms,
           c \in {"submit_brief", "start", "deliver", "approve", "revision", "dispute", "cancel", "refund"}
    PROVE  /\ Accepts(p, c) => Offered(p, c)
           /\ Offered(p, c) => Accepts(p, c) \/ ShownTooLong(c) \/ BeyondBounds(c)
<1> USE DEF Parties
<1>1. CASE c = "submit_brief"
    BY <1>1, OfferedWhen DEF Accepts
<1>2. CASE c = "start"
    BY <1>2, OfferedWhen DEF Accepts
<1>3. CASE c = "deliver"
    BY <1>3, OfferedWhen DEF Accepts
<1>4. status = "DELIVERED" => delivery > 0
    BY LimitAssumption DEF IInv, TypeOK, SideInv, DeliveriesAnswerRevisions, WorkStatus
<1>5. CASE c = "approve"
    BY <1>4, <1>5, OfferedWhen DEF Accepts
<1>6. CASE c = "revision"
    <2>1. RevisionLimit - revisions > 0 <=> revisions < RevisionLimit
        BY LimitAssumption DEF IInv, TypeOK
    <2> QED
        BY <1>4, <1>6, <2>1, OfferedWhen DEF Accepts, ShownTooLong
<1>7. CASE c = "dispute"
    <2>1. disputes < MaxDisputes \/ BeyondBounds(c)
        BY <1>7, BoundAssumption DEF IInv, TypeOK, BeyondBounds
    <2> QED
        BY <1>7, <2>1, OfferedWhen DEF Accepts
<1>8. CASE c = "cancel"
    BY <1>8, OfferedWhen DEF Accepts
<1>9. CASE c = "refund"
    BY <1>9, OfferedWhen DEF Accepts, ShownTooLong, IInv, RowInv, RefundHasReason
<1> QED
    BY <1>1, <1>2, <1>3, <1>5, <1>6, <1>7, <1>8, <1>9

\* The forms of a cancellation during the work: the page decides on the pending request alone, the command on the
\* order's version and status too.
LEMMA CancellationFormsMatch ==
    ASSUME IInv, NEW p \in Parties, NEW c \in Forms,
           c \in {"request_cancellation", "withdraw_cancellation", "accept_cancellation", "reject_cancellation"}
    PROVE  /\ Accepts(p, c) => Offered(p, c)
           /\ Offered(p, c) => Accepts(p, c) \/ ShownTooLong(c)
<1> USE DEF Parties
<1>1. request.by # "none" <=> request # NoRequest
    BY DEF IInv, TypeOK, Requests, NoRequest
<1>2. CASE c = "request_cancellation"
    BY <1>1, <1>2, OfferedWhen DEF Accepts
<1>3. CASE c = "withdraw_cancellation"
    BY <1>1, <1>3, OfferedWhen DEF Accepts
<1>4. CASE c \in {"accept_cancellation", "reject_cancellation"}
    <2>1. request # NoRequest => status \in Working /\ (request.orderVersion = version \/ ShownTooLong(c))
        BY <1>4 DEF IInv, TypeOK, Requests, SideInv, RequestOnlyWhileWorking, ShownTooLong
    <2>2. Accepts(p, c) <=> MayAnswer(p)
        BY <1>4 DEF Accepts
    <2>3. Offered(p, c) <=> request.by # "none" /\ p # request.by
        BY <1>4, OfferedWhen
    <2> QED
        BY <1>1, <2>1, <2>2, <2>3 DEF MayAnswer
<1> QED
    BY <1>2, <1>3, <1>4

\* The forms of a deadline extension: the page shows the pending proposal, the command compares it with the deadline
\* the order is working to.
LEMMA DeadlineFormsMatch ==
    ASSUME IInv, NEW p \in Parties, NEW c \in Forms,
           c \in {"request_extension", "withdraw_extension", "accept_extension", "reject_extension"}
    PROVE  /\ Accepts(p, c) => Offered(p, c)
           /\ Offered(p, c) => Accepts(p, c) \/ BeyondBounds(c)
<1> USE DEF Parties
<1>1. amendment.by # "none" <=> amendment # NoAmendment
    BY DEF IInv, TypeOK, Amendments, NoAmendment
<1>2. CASE c = "request_extension"
    <2>1. CurrentDeadline # "NONE" <=> \/ status \in {"FUNDED", "IN_PROGRESS"} /\ deliveryDue > 0
                                       \/ status = "REVISION_REQUESTED" /\ revisionDue > 0
        BY DEF CurrentDeadline
    <2>2. CurrentDeadline # "NONE" => DueOf(CurrentDeadline) < MaxDue \/ BeyondBounds(c)
        BY <1>2, BoundAssumption DEF BeyondBounds, DueOf, IInv, TypeOK
    <2> QED
        BY <1>1, <1>2, <2>1, <2>2, OfferedWhen DEF Accepts
<1>3. CASE c = "withdraw_extension"
    BY <1>1, <1>3, OfferedWhen DEF Accepts
<1>4. CASE c = "reject_extension"
    BY <1>1, <1>4, OfferedWhen DEF Accepts
<1>5. CASE c = "accept_extension"
    <2>1. amendment # NoAmendment => CurrentDeadline = amendment.deadline /\ amendment.old = DueOf(amendment.deadline)
        BY DEF IInv, SideInv, ProposalMatchesDeadline
    <2> QED
        BY <1>1, <1>5, <2>1, OfferedWhen DEF Accepts
<1> QED
    BY <1>2, <1>3, <1>4, <1>5

\* A party that takes the command behind a form passes the checks written out in Accepts: they are the command's own.
LEMMA SendsPassesGuards ==
    ASSUME TypeOK, NEW p, NEW c, Sends(p, c)
    PROVE  Accepts(p, c)
<1>1. CASE c = "submit_brief" /\ p = "buyer" /\ SubmitBrief
    BY <1>1 DEF SubmitBrief, Accepts
<1>2. CASE c = "start" /\ p = "creator" /\ Start
    BY <1>2 DEF Start, Accepts
<1>3. CASE c = "deliver" /\ p = "creator" /\ Deliver
    BY <1>3 DEF Deliver, Accepts
<1>4. CASE c = "approve" /\ p = "buyer" /\ Approve(delivery)
    BY <1>4 DEF Approve, Accepts
<1>5. CASE c = "revision" /\ p = "buyer" /\ Revision(delivery)
    BY <1>5 DEF Revision, Accepts
<1>6. CASE c = "dispute" /\ OpenDispute
    BY <1>6 DEF OpenDispute, Accepts
<1>7. CASE c = "cancel" /\ Cancel
    BY <1>7 DEF Cancel, Accepts
<1>8. CASE c = "request_cancellation" /\ \E refund \in 0..Amount : RequestCancellation(p, refund)
    BY <1>8 DEF RequestCancellation, Accepts
<1>9. CASE c = "withdraw_cancellation" /\ WithdrawCancellation(p)
    BY <1>9 DEF WithdrawCancellation, Accepts
<1>10. CASE c = "accept_cancellation" /\ AcceptCancellation(p)
    BY <1>10 DEF AcceptCancellation, Accepts
<1>11. CASE c = "reject_cancellation" /\ RejectCancellation(p)
    BY <1>11 DEF RejectCancellation, Accepts
<1>12. CASE c = "refund" /\ p = "buyer" /\ Refund
    BY <1>12 DEF Refund, Accepts
<1>13. CASE c = "request_extension" /\ \E due \in 1..MaxDue : RequestDeadlineExtension(p, due)
    <2>1. PICK due \in 1..MaxDue : RequestDeadlineExtension(p, due)
        BY <1>13
    <2>2. CurrentDeadline # "NONE" /\ amendment = NoAmendment /\ due > DueOf(CurrentDeadline)
        BY <2>1 DEF RequestDeadlineExtension
    <2>3. DueOf(CurrentDeadline) < MaxDue
        BY <2>2, BoundAssumption DEF DueOf, TypeOK
    <2> QED
        BY <1>13, <2>2, <2>3 DEF Accepts
<1>14. CASE c = "withdraw_extension" /\ p = amendment.by /\ DropDeadlineExtension
    BY <1>14 DEF DropDeadlineExtension, Accepts
<1>15. CASE c = "reject_extension" /\ p # amendment.by /\ DropDeadlineExtension
    BY <1>15 DEF DropDeadlineExtension, Accepts
<1>16. CASE c = "accept_extension" /\ AcceptDeadlineExtension(p)
    BY <1>16 DEF AcceptDeadlineExtension, Accepts
<1> QED
    BY <1>1, <1>2, <1>3, <1>4, <1>5, <1>6, <1>7, <1>8, <1>9, <1>10, <1>11, <1>12, <1>13, <1>14, <1>15, <1>16 DEF Sends

\* In every reachable state, for every party, a command that would pass its checks has its form on the order page, and
\* a form on the page passes the checks of its command unless it is one of the four that are shown too long.
THEOREM PageMatchesGuards == Spec => []OffersMatchGuards
<1>1. IInv => OffersMatchGuards
    <2> SUFFICES ASSUME IInv, NEW p \in Parties, Opened(p), NEW c \in Forms
                 PROVE  /\ Accepts(p, c) => Offered(p, c)
                        /\ Offered(p, c) => Accepts(p, c) \/ ShownTooLong(c) \/ BeyondBounds(c)
        BY DEF OffersMatchGuards
    <2>1. CASE c \in {"submit_brief", "start", "deliver", "approve", "revision", "dispute", "cancel", "refund"}
        BY <2>1, WorkFormsMatch
    <2>2. CASE c \in {"request_cancellation", "withdraw_cancellation", "accept_cancellation", "reject_cancellation"}
        BY <2>2, CancellationFormsMatch
    <2>3. CASE c \in {"request_extension", "withdraw_extension", "accept_extension", "reject_extension"}
        BY <2>3, DeadlineFormsMatch
    <2> QED
        BY <2>1, <2>2, <2>3 DEF Forms
<1> QED
    BY Invariance, <1>1, PTL

=============================================================================
