---------------------------- MODULE AfterRelease ----------------------------
(***************************************************************************)
(* Refunds after the creator was paid (funding.ts, PAY-15): the money is   *)
(* first taken back from the creator's transfer, or covered by the         *)
(* platform, and only then sent to the buyer.  The reversal and the refund *)
(* are provider calls that may be lost, time out after acceptance or be    *)
(* refused; their facts arrive as webhooks, repeatedly or never.           *)
(***************************************************************************)
EXTENDS Integers, FiniteSets, Totals

CONSTANTS
    Attempts,      \* refunds after release the finance team may open
    Transferred,   \* what the creator was paid; the captured amount is the same
    AfterSums      \* amounts finance may ask for

ASSUME AfterAssumption == Transferred \in Nat \ {0} /\ AfterSums \subseteq 1..Transferred /\ IsFiniteSet(Attempts)

VARIABLES
    after,       \* post_release_refunds: [status, amount, recovered, covered]
    reversal,    \* reversal:<id> operation: [journal, applied, fact]
    buyerBack,   \* refund:after-release:<id>: [journal, provider, fact]
    accountHeld, \* post_release_refund account: money taken for the buyer and not sent yet
    platformLoss,
    cardDispute  \* a card dispute is OPEN or LOST

afterVars == <<after, reversal, buyerBack, accountHeld, platformLoss, cardDispute>>

AfterInit ==
    /\ after = [r \in Attempts |-> [status |-> "NONE", amount |-> 0, recovered |-> 0, covered |-> 0]]
    /\ reversal = [r \in Attempts |-> [journal |-> "NONE", applied |-> FALSE, fact |-> FALSE]]
    /\ buyerBack = [r \in Attempts |-> [journal |-> "NONE", provider |-> "NONE", fact |-> "NONE"]]
    /\ accountHeld = 0 /\ platformLoss = 0 /\ cardDispute = FALSE

-----------------------------------------------------------------------------
(* The provider *)

AskedFor(S) == Total([r \in Attempts |-> after[r].amount], S)
Reversed == AskedFor({r \in Attempts : reversal[r].applied})
LiveRefund(r) == buyerBack[r].provider \in {"PENDING", "SUCCEEDED"}
RefundedTotal == AskedFor({r \in Attempts : LiveRefund(r)})
PrincipalLeft == Reversed - AskedFor({r \in Attempts : LiveRefund(r) /\ after[r].covered = 0})

Replies == {"ok", "refused", "lost", "late"}   \* late: accepted, and the answer timed out
Journalled(reply) == CASE reply = "ok" -> "SUCCEEDED" [] reply = "refused" -> "FAILED"
                       [] reply = "lost" -> "PENDING" [] OTHER -> "UNKNOWN"

\* reverseTransfer: replays an applied operation; refuses more than was transferred or than the payee's balance holds.
ReverseReply(r, amount, reply) ==
    IF reversal[r].applied THEN reply = "ok"
    ELSE reply \in {"ok", "late"} => amount <= Transferred - Reversed

\* attemptTransferReversal: RETRY leaves the row as it is; a refusal opens the deficit.
AttemptReversal(r, row, reply) ==
    /\ ReverseReply(r, row.amount, reply)
    /\ reversal' = [reversal EXCEPT ![r].journal = IF @ = "SUCCEEDED" THEN @ ELSE Journalled(reply),
                                    ![r].applied = @ \/ reply \in {"ok", "late"}]
    /\ after' = [after EXCEPT ![r] = [row EXCEPT !.status = CASE reply = "ok" -> "RECOVERING" [] reply = "refused" -> "DEFICIT" [] OTHER -> @]]
    /\ UNCHANGED <<buyerBack, accountHeld, platformLoss, cardDispute>>

\* requestAfterReleaseRefund: from the principal, or from the platform balance when the platform covered it.
SendRefund(r, row, left, reply) ==
    /\ reply \in {"ok", "late"} => row.amount <= left
    /\ reply = "refused" => row.amount > left
    /\ buyerBack' = [buyerBack EXCEPT ![r] = [journal |-> Journalled(reply), fact |-> "NONE",
                       provider |-> IF reply \in {"ok", "late"} THEN "PENDING" ELSE "NONE"]]

-----------------------------------------------------------------------------
(* Finance *)

StartPostReleaseRefund(r, amount, reply) ==
    /\ after[r].status = "NONE" /\ ~cardDispute
    /\ \A x \in Attempts : after[x].status \in {"NONE", "REFUNDED"}
    /\ amount <= Transferred - AskedFor(Attempts)
    /\ AttemptReversal(r, [status |-> "RECOVERING", amount |-> amount, recovered |-> 0, covered |-> 0], reply)

RetryRecovery(r, reply) == after[r].status = "DEFICIT" /\ AttemptReversal(r, after[r], reply)

\* Mutant: the cover does not look for a reversal that may still move money.
CoverAnyway(r, reply) ==
    /\ after[r].status = "DEFICIT" /\ after' = [after EXCEPT ![r].status = "REFUND_PENDING", ![r].covered = after[r].amount]
    /\ platformLoss' = platformLoss + after[r].amount /\ accountHeld' = accountHeld + after[r].amount
    /\ SendRefund(r, after[r], Transferred - RefundedTotal, reply) /\ UNCHANGED <<reversal, cardDispute>>

CoverDeficit(r, reply) ==
    LET remaining == after[r].amount - after[r].recovered
    IN  /\ after[r].status = "DEFICIT" /\ reversal[r].journal \notin {"PENDING", "UNKNOWN", "SUCCEEDED"}
        /\ after' = [after EXCEPT ![r].status = "REFUND_PENDING", ![r].covered = remaining]
        /\ platformLoss' = platformLoss + remaining /\ accountHeld' = accountHeld + remaining
        /\ SendRefund(r, after[r], Transferred - RefundedTotal, reply)
        /\ UNCHANGED <<reversal, cardDispute>>

-----------------------------------------------------------------------------
(* Facts *)

\* applyReversalEvent, on any of the event's deliveries.
ReversalSucceeded(r, reply) ==
    /\ reversal[r].applied /\ ~reversal[r].fact /\ reversal' = [reversal EXCEPT ![r].fact = TRUE]
    /\ IF after[r].covered > 0
       THEN platformLoss' = platformLoss - after[r].amount /\ reply = "ok" /\ UNCHANGED <<after, buyerBack, accountHeld>>
       ELSE /\ after' = [after EXCEPT ![r].recovered = after[r].amount, ![r].status = "REFUND_PENDING"]
            /\ accountHeld' = accountHeld + after[r].amount
            /\ SendRefund(r, after[r], PrincipalLeft, reply) /\ UNCHANGED platformLoss
    /\ UNCHANGED cardDispute

SettleBuyerRefund(r, status) ==
    /\ buyerBack[r].provider = "PENDING" /\ buyerBack' = [buyerBack EXCEPT ![r].provider = status]
    /\ UNCHANGED <<after, reversal, accountHeld, platformLoss, cardDispute>>

\* applyPostReleaseRefundEvent, by webhook or fetched by the reconciliation job.
BuyerRefundFact(r) ==
    /\ buyerBack[r].provider \in {"SUCCEEDED", "FAILED"} /\ buyerBack[r].fact # buyerBack[r].provider
    /\ buyerBack' = [buyerBack EXCEPT ![r].fact = buyerBack[r].provider]
    /\ IF buyerBack[r].provider = "SUCCEEDED" /\ after[r].status = "REFUND_PENDING"
       THEN after' = [after EXCEPT ![r].status = "REFUNDED"] /\ accountHeld' = accountHeld - after[r].amount
       ELSE UNCHANGED <<after, accountHeld>>
    /\ UNCHANGED <<reversal, platformLoss, cardDispute>>

\* reconcileProviderOperations: a lookup resolves an accepted call; it repeats neither of these two operations.
ResolveAfter(r) ==
    /\ \/ /\ reversal[r].journal \in {"PENDING", "UNKNOWN"} /\ reversal[r].applied
          /\ reversal' = [reversal EXCEPT ![r].journal = "SUCCEEDED"] /\ UNCHANGED buyerBack
       \/ /\ buyerBack[r].journal \in {"PENDING", "UNKNOWN"} /\ buyerBack[r].provider # "NONE"
          /\ buyerBack' = [buyerBack EXCEPT ![r].journal = "SUCCEEDED"] /\ UNCHANGED reversal
    /\ UNCHANGED <<after, accountHeld, platformLoss, cardDispute>>

CardDispute == cardDispute' \in BOOLEAN \ {cardDispute} /\ UNCHANGED <<after, reversal, buyerBack, accountHeld, platformLoss>>

AfterNext ==
    \/ \E r \in Attempts, reply \in Replies :
         \/ \E amount \in AfterSums : StartPostReleaseRefund(r, amount, reply)
         \/ RetryRecovery(r, reply) \/ CoverDeficit(r, reply) \/ ReversalSucceeded(r, reply)
    \/ \E r \in Attempts : BuyerRefundFact(r) \/ ResolveAfter(r) \/ \E s \in {"SUCCEEDED", "FAILED"} : SettleBuyerRefund(r, s)
    \/ CardDispute

-----------------------------------------------------------------------------
(* Properties *)

\* The buyer is refunded with money that came back exactly once (funding.ts:569-570, "the money first has to come back from
\* that transfer (a reversal) or be covered by the platform"): never before, never with both, never more than was transferred,
\* and the books hold exactly what was taken and not yet sent, however calls are lost, repeated, covered or reported late.
RefundBackedOnce ==
    /\ \A r \in Attempts : buyerBack[r].provider # "NONE" =>
         \/ after[r].recovered = after[r].amount /\ after[r].covered = 0 /\ reversal[r].applied
         \/ after[r].covered = after[r].amount /\ after[r].recovered = 0 /\ ~reversal[r].applied
    /\ RefundedTotal <= Transferred
    /\ accountHeld = Total([r \in Attempts |-> after[r].recovered + after[r].covered], {r \in Attempts : after[r].status # "REFUNDED"})

=============================================================================
