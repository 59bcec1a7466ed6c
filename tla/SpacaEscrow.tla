---------------------------- MODULE SpacaEscrow ----------------------------
(***************************************************************************)
(* The escrow contract (contracts/src/SpacaEscrow.sol) and the transactions *)
(* on their way to it.  A transaction carries signed authorisations; it is  *)
(* mined once, and then either takes effect as a whole or reverts.  The     *)
(* in-process devnet of src/modules/crypto/chain.ts applies the same rules. *)
(*                                                                         *)
(* An authorisation is the n-th one signed for its payout: the pair is its  *)
(* single-use nonce.  Expiry is the possibility that a transaction under    *)
(* way is never mined.                                                      *)
(***************************************************************************)
EXTENDS Integers, FiniteSets, Totals

CONSTANTS
    Payouts,     \* payout references (chain_payouts rows)
    Kind,        \* [Payouts -> PayoutKinds]
    BucketOf,    \* [Payouts -> escrow references]
    AmountOf,    \* [Payouts -> Nat], 0 for a freeze
    Deposit      \* what each bucket was funded with

PayoutKinds == {"ALLOCATION", "POOL_REFUND", "ORDER_RELEASE", "ORDER_REFUND", "FREEZE", "UNFREEZE"}
Releases == {"ALLOCATION", "ORDER_RELEASE"}
Refunds == {"POOL_REFUND", "ORDER_REFUND"}
Freezes == {"FREEZE", "UNFREEZE"}
Buckets == {BucketOf[p] : p \in Payouts}

ASSUME EscrowAssumption ==
    /\ IsFiniteSet(Payouts) /\ Kind \in [Payouts -> PayoutKinds] /\ Deposit \in Nat
    /\ AmountOf \in [Payouts -> Nat] /\ \A p \in Payouts : AmountOf[p] = 0 <=> Kind[p] \in Freezes

VARIABLES
    bucket,       \* _buckets: [deposited, released, refunded, frozen]
    paused,       \* Pausable
    signer,       \* releaseSigner is the server's key
    payoutUsed,   \* payoutUsed
    nonceUsed,    \* nonceUsed
    paidOut,      \* what each payout reference has transferred in all
    txs           \* transactions submitted: [auths, result]

escrowVars == <<bucket, paused, signer, payoutUsed, nonceUsed, paidOut, txs>>

EscrowInit ==
    /\ bucket = [b \in Buckets |-> [deposited |-> 0, released |-> 0, refunded |-> 0, frozen |-> FALSE]]
    /\ paused = FALSE /\ signer = TRUE /\ payoutUsed = {} /\ nonceUsed = {} /\ txs = {}
    /\ paidOut = [p \in Payouts |-> 0]

Remaining(b) == bucket[b].deposited - bucket[b].released - bucket[b].refunded

\* fund: the payer's first deposit opens the bucket.
FundBucket(b) ==
    /\ ~paused /\ bucket[b].deposited = 0
    /\ bucket' = [bucket EXCEPT ![b].deposited = Deposit]
    /\ UNCHANGED <<paused, signer, payoutUsed, nonceUsed, paidOut, txs>>

-----------------------------------------------------------------------------
(* Signed payouts.  An authorisation is a pair <<payout, attempt>>. *)

\* The domain, the terms and the signer of an authorisation match the contract's.
SignedByServer == signer

\* _consume, then _requireSigner, then _debit: the error of the first check that fails.
RevertReplayed(a) ==
    LET p == a[1]
        b == BucketOf[p]
    IN  IF paused /\ Kind[p] \notin Freezes THEN "EnforcedPause"
        ELSE IF bucket[b].deposited = 0 THEN "UnknownBucket"
        ELSE IF a \in nonceUsed THEN "NonceUsed"
        ELSE IF ~SignedByServer THEN "BadSignature"
        ELSE IF bucket[b].frozen /\ Kind[p] \notin Freezes THEN "BucketFrozen"
        ELSE IF AmountOf[p] > Remaining(b) THEN "InsufficientBucketBalance"
        ELSE "NONE"

Revert(a) ==
    LET p == a[1]
        b == BucketOf[p]
    IN  IF paused /\ Kind[p] \notin Freezes THEN "EnforcedPause"
        ELSE IF bucket[b].deposited = 0 THEN "UnknownBucket"
        ELSE IF a \in nonceUsed THEN "NonceUsed"
        ELSE IF p \in payoutUsed THEN "PayoutAlreadyReleased"
        ELSE IF ~SignedByServer THEN "BadSignature"
        ELSE IF bucket[b].frozen /\ Kind[p] \notin Freezes THEN "BucketFrozen"
        ELSE IF AmountOf[p] > Remaining(b) THEN "InsufficientBucketBalance"
        ELSE "NONE"

Spent(auths, b, kinds) ==
    Total([a \in auths |-> AmountOf[a[1]]], {a \in auths : BucketOf[a[1]] = b /\ Kind[a[1]] \in kinds})

\* releaseBatch is all or nothing: each member passes, and together they fit what is left in each bucket.
Executes(auths) ==
    /\ \A a \in auths : Revert(a) = "NONE"
    /\ \A b \in Buckets : Spent(auths, b, PayoutKinds) <= Remaining(b)

\* release, releaseBatch, refund and setFrozen.
Apply(auths) ==
    LET money == {a \in auths : Kind[a[1]] \notin Freezes}
    IN  /\ bucket' = [b \in Buckets |->
              [deposited |-> bucket[b].deposited,
               released |-> bucket[b].released + Spent(auths, b, Releases),
               refunded |-> bucket[b].refunded + Spent(auths, b, Refunds),
               frozen |-> IF \E a \in auths \ money : BucketOf[a[1]] = b
                          THEN \E a \in auths : BucketOf[a[1]] = b /\ Kind[a[1]] = "FREEZE" ELSE bucket[b].frozen]]
        /\ nonceUsed' = nonceUsed \cup auths
        /\ payoutUsed' = payoutUsed \cup {a[1] : a \in money}
        /\ paidOut' = [p \in Payouts |-> paidOut[p] + IF \E a \in money : a[1] = p THEN AmountOf[p] ELSE 0]

\* A transaction under way is mined: it takes effect or reverts.
Mine(t) ==
    /\ t \in txs /\ t.result = "PENDING"
    /\ IF Executes(t.auths)
       THEN Apply(t.auths) /\ txs' = (txs \ {t}) \cup {[t EXCEPT !.result = "OK"]}
       ELSE /\ txs' = (txs \ {t}) \cup {[t EXCEPT !.result = "REVERTED"]}
            /\ UNCHANGED <<bucket, payoutUsed, nonceUsed, paidOut>>
    /\ UNCHANGED <<paused, signer>>

\* Or it is dropped, or its authorisation expires first.
Drop(t) ==
    /\ t \in txs /\ t.result = "PENDING"
    /\ txs' = txs \ {t}
    /\ UNCHANGED <<bucket, paused, signer, payoutUsed, nonceUsed, paidOut>>

-----------------------------------------------------------------------------
(* The payer, the guardian and the owner *)

\* reclaim, once the bucket's time has come; it works while paused.
Reclaim(b) ==
    /\ Remaining(b) > 0 /\ ~bucket[b].frozen
    /\ bucket' = [bucket EXCEPT ![b].refunded = @ + Remaining(b)]
    /\ UNCHANGED <<paused, signer, payoutUsed, nonceUsed, paidOut, txs>>

GuardianFreeze(b) ==
    /\ bucket[b].deposited > 0 /\ ~bucket[b].frozen
    /\ bucket' = [bucket EXCEPT ![b].frozen = TRUE]
    /\ UNCHANGED <<paused, signer, payoutUsed, nonceUsed, paidOut, txs>>

\* pause and unpause.
SetPaused ==
    /\ paused' = ~paused
    /\ UNCHANGED <<bucket, signer, payoutUsed, nonceUsed, paidOut, txs>>

\* setReleaseSigner: the server's authorisations stop being accepted.
SetReleaseSigner ==
    /\ signer /\ signer' = FALSE
    /\ UNCHANGED <<bucket, paused, payoutUsed, nonceUsed, paidOut, txs>>

Incidents == (\E b \in Buckets : Reclaim(b) \/ GuardianFreeze(b)) \/ SetPaused \/ SetReleaseSigner

-----------------------------------------------------------------------------
(* Properties *)

\* Whatever is signed, retried, batched, reclaimed or mined late, a payout reference is paid at most once, and a bucket
\* never gives out more than was deposited in it (_consume and _debit).
PaidAtMostOnce ==
    /\ \A p \in Payouts : paidOut[p] \in {0, AmountOf[p]}
    /\ \A b \in Buckets : Remaining(b) >= 0

=============================================================================
