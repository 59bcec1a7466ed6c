------------------------------- MODULE Pools -------------------------------
(***************************************************************************)
(* A campaign pool (src/modules/pools): per-asset buckets that deposits    *)
(* fill, hires reserve, payouts and refunds empty; reward templates that   *)
(* are replaced while offers are out; and the settlement of a pool-funded  *)
(* order, whose rewards are paid one by one and may fail one by one.       *)
(* Every command runs under the pool's lock; payout outcomes arrive later, *)
(* from the payout outbox.                                                 *)
(***************************************************************************)
EXTENDS Integers, Sequences, FiniteSets, Totals

CONSTANTS
    PoolHires,     \* hires of the request
    Templates,     \* reward templates, by version: amount per asset (0: no such item), the required items, and "perk"
    TargetHires,
    PoolDeposits,  \* amount of one deposit, per asset
    MaxPoolDeposits, MaxPoolRefunds, MaxReleases   \* bounds: deposits and refunds per asset, payout attempts per reward

Assets == {"cash", "token"}       \* the CASH item and a TOKEN item, one of each, in assets of their own
ASSUME PoolAssumption ==
    /\ IsFiniteSet(PoolHires) /\ TargetHires \in Nat \ {0}
    /\ Templates \in Seq([cash : Nat, token : Nat, required : SUBSET Assets, perk : BOOLEAN]) /\ Templates # <<>>
    /\ PoolDeposits \in [Assets -> Nat] /\ {MaxPoolDeposits, MaxPoolRefunds, MaxReleases} \subseteq Nat

VARIABLES
    pool,         \* [status, version]
    balance,      \* per asset: its buckets
    poolLedger,   \* movements applied: <<movement, reference>>
    pooled,       \* per hire, its order: [status, settlement, cash (amount of the offer), version (template of its terms)]
    allocation,   \* per hire and asset: [state, amount, attempts, required]
    entitlement,  \* per hire: its perk
    refund,       \* per asset: its refunds so far
    asked,        \* per asset: pool_funding_intents made
    funded        \* per asset: intents whose deposit was credited

poolVars == <<pool, balance, poolLedger, pooled, allocation, entitlement, refund, asked, funded>>
poolMoney == <<balance, poolLedger>>

Empty == [confirmed_deposit |-> 0, unallocated |-> 0, allocated_active |-> 0, pending_outflow |-> 0, released |-> 0, refunded |-> 0]
NoAllocation == [state |-> "NONE", amount |-> 0, attempts |-> 0, required |-> FALSE]

\* validateTemplate: the CASH item is required, and no item is without an amount.
ValidTemplate(t) == "cash" \in t.required /\ \A a \in t.required : t[a] > 0
Reward(a) == Templates[pool.version][a]
\* syncPoolAssets: only a required item has a target, an optional one and one the template dropped have none.
Target(version, a) == IF a \in Templates[version].required THEN Templates[version][a] * TargetHires ELSE 0

\* create_campaign_pool: before anyone applies.
PoolInit ==
    /\ ValidTemplate(Templates[1])
    /\ pool = [status |-> "FUNDING", version |-> 1]
    /\ balance = [a \in Assets |-> Empty] /\ poolLedger = {}
    /\ pooled = [h \in PoolHires |-> [status |-> "NONE", settlement |-> "NOT_READY", cash |-> 0, version |-> 0]]
    /\ allocation = [h \in PoolHires |-> [a \in Assets |-> NoAllocation]]
    /\ entitlement = [h \in PoolHires |-> "NONE"]
    /\ refund = [a \in Assets |-> <<>>] /\ asked = [a \in Assets |-> 0] /\ funded = [a \in Assets |-> 0]

-----------------------------------------------------------------------------
(* Buckets (balances.ts) *)

MOVES == [ALLOCATE |-> <<"unallocated", "allocated_active">>, DEALLOCATE |-> <<"allocated_active", "unallocated">>,
          RELEASE_START |-> <<"allocated_active", "pending_outflow">>, RELEASE_DONE |-> <<"pending_outflow", "released">>,
          RELEASE_FAILED |-> <<"pending_outflow", "allocated_active">>, REFUND_START |-> <<"unallocated", "pending_outflow">>,
          REFUND_DONE |-> <<"pending_outflow", "refunded">>, REFUND_FAILED |-> <<"pending_outflow", "unallocated">>]

\* One movement of n on the buckets b of an asset.
BucketsAfter(movement, b, n) ==
    IF movement = "DEPOSIT" THEN [b EXCEPT !.confirmed_deposit = @ + n, !.unallocated = @ + n]
    ELSE [b EXCEPT ![MOVES[movement][1]] = @ - n, ![MOVES[movement][2]] = @ + n]

\* moveBalance on several assets of one transaction: once per movement and reference, never below zero.
MoveBalance(movement, moves) ==
    LET new == {m \in moves : <<movement, m.ref>> \notin poolLedger}
    IN  /\ balance' = [a \in Assets |-> IF \E m \in new : m.asset = a
                                        THEN BucketsAfter(movement, balance[a], (CHOOSE m \in new : m.asset = a).amount) ELSE balance[a]]
        /\ \A a \in Assets : \A bucket \in DOMAIN Empty : balance'[a][bucket] >= 0
        /\ poolLedger' = poolLedger \cup {<<movement, m.ref>> : m \in new}
Move(a, n, ref) == [asset |-> a, amount |-> n, ref |-> ref]

\* Net deposits cover the target of every asset.
Covered(version, buckets) == \A a \in Assets : buckets[a].confirmed_deposit - buckets[a].refunded >= Target(version, a)

\* refreshPoolStatus, with the balances after the step.
RefreshPoolStatus(version) ==
    pool' = [version |-> version,
             status |-> IF pool.status = "CLOSED" THEN "CLOSED" ELSE IF Covered(version, balance') THEN "ACTIVE" ELSE "FUNDING"]

-----------------------------------------------------------------------------
(* The owner *)

UpdatePoolTemplate ==
    /\ pool.status # "CLOSED" /\ pool.version < Len(Templates) /\ ValidTemplate(Templates[pool.version + 1])
    /\ UNCHANGED <<poolMoney, pooled, allocation, entitlement, refund, asked, funded>>
    /\ RefreshPoolStatus(pool.version + 1)

\* create_pool_funding_intent: for an asset of this or an earlier template of an open pool.
CreatePoolFundingIntent(a) ==
    /\ pool.status # "CLOSED" /\ \E v \in 1..pool.version : Templates[v][a] > 0
    /\ PoolDeposits[a] > 0 /\ asked[a] < MaxPoolDeposits
    /\ asked' = [asked EXCEPT ![a] = @ + 1]
    /\ UNCHANGED <<pool, poolMoney, pooled, allocation, entitlement, refund, funded>>

\* The deposit of an intent, credited once and also after the pool closed (processPoolDeposit).
PoolDeposit(a) ==
    /\ funded[a] < asked[a]
    /\ funded' = [funded EXCEPT ![a] = @ + 1]
    /\ MoveBalance("DEPOSIT", {Move(a, PoolDeposits[a], <<a, funded'[a]>>)})
    /\ RefreshPoolStatus(pool.version)
    /\ UNCHANGED <<pooled, allocation, entitlement, refund, asked>>

\* refund_pool_unused: all of what no hire holds, or part of it.
RefundUnused(a, n) ==
    /\ n \in 1..balance[a].unallocated /\ funded[a] > 0 /\ Len(refund[a]) < MaxPoolRefunds
    /\ refund' = [refund EXCEPT ![a] = Append(@, [state |-> "REFUND_PENDING", amount |-> n])]
    /\ MoveBalance("REFUND_START", {Move(a, n, <<a, Len(refund'[a])>>)})
    /\ RefreshPoolStatus(pool.version)
    /\ UNCHANGED <<pooled, allocation, entitlement, asked, funded>>

ClosePool ==
    /\ pool.status # "CLOSED"
    /\ \A h \in PoolHires, a \in Assets : allocation[h][a].state \notin {"ACTIVE", "RELEASE_PENDING"}
    /\ \A a \in Assets : balance[a].unallocated = 0 /\ balance[a].pending_outflow = 0
    /\ pool' = [pool EXCEPT !.status = "CLOSED"]
    /\ UNCHANGED <<poolMoney, pooled, allocation, entitlement, refund, asked, funded>>

-----------------------------------------------------------------------------
(* Hires *)

\* select_application: the offer repeats the template's CASH reward (poolTermsFor); after a new template, offer again.
OfferHire(h) ==
    /\ pooled[h].status \in {"NONE", "OFFERED"} /\ pooled[h].cash # Reward("cash")
    /\ pooled' = [pooled EXCEPT ![h] = [@ EXCEPT !.status = "OFFERED", !.cash = Reward("cash")]]
    /\ UNCHANGED <<pool, poolMoney, allocation, entitlement, refund, asked, funded>>

\* applyPoolFunding: the new order is funded at once, if the reward is its price; its terms keep the template's version.
ApplyPoolFunding(h) ==
    /\ pooled[h].status = "OFFERED" /\ Reward("cash") = pooled[h].cash
    /\ pooled' = [pooled EXCEPT ![h] = [@ EXCEPT !.status = "FUNDED", !.version = pool.version]]

\* accept_offer with a pool: every required reward or nothing, optional ones if they are there.
AllocateHire(h) ==
    LET given == {a \in Assets : Reward(a) > 0 /\ balance[a].unallocated >= Reward(a)}
        required == Templates[pool.version].required
    IN  /\ pool.status # "CLOSED" /\ required \subseteq given
        /\ MoveBalance("ALLOCATE", {Move(a, Reward(a), <<h, a>>) : a \in given})
        /\ allocation' = [allocation EXCEPT ![h] = [a \in Assets |-> IF a \in given
                             THEN [state |-> "ACTIVE", amount |-> Reward(a), attempts |-> 0, required |-> a \in required] ELSE NoAllocation]]
        /\ entitlement' = [entitlement EXCEPT ![h] = IF Templates[pool.version].perk THEN "PENDING" ELSE "NONE"]
        /\ ApplyPoolFunding(h)
        /\ UNCHANGED <<pool, refund, asked, funded>>

\* returnPoolAllocations: all of a hire's rewards go back to the pool, unless one is being or was paid.
ReturnPoolAllocations(h) ==
    LET active == {a \in Assets : allocation[h][a].state = "ACTIVE"}
    IN  /\ \A a \in Assets : allocation[h][a].state \notin {"RELEASE_PENDING", "RELEASED"}
        /\ MoveBalance("DEALLOCATE", {Move(a, allocation[h][a].amount, <<h, a>>) : a \in active})
        /\ allocation' = [allocation EXCEPT ![h] = [a \in Assets |-> IF a \in active
                             THEN [@[a] EXCEPT !.state = "CANCELLED"] ELSE @[a]]]
        /\ entitlement' = [entitlement EXCEPT ![h] = IF @ = "PENDING" THEN "CANCELLED" ELSE @]
        /\ RefreshPoolStatus(pool.version)

\* A hire cancelled in full, the only refund of the pool rail (returnPoolFunding).
CancelHire(h) ==
    /\ pooled[h].status = "FUNDED" /\ ReturnPoolAllocations(h)
    /\ pooled' = [pooled EXCEPT ![h].status = "REFUNDED"]
    /\ UNCHANGED <<refund, asked, funded>>

\* Work is cancelled for less than a full refund: a part cannot go back (returnPoolFunding refuses and a case opens), so
\* the rewards stay with the hire, and the settlement job pays them.
CancelKeepingRewards(h) ==
    /\ pooled[h].status = "FUNDED" /\ pooled' = [pooled EXCEPT ![h].status = "CANCELLED", ![h].settlement = "READY"]
    /\ UNCHANGED <<pool, poolMoney, allocation, entitlement, refund, asked, funded>>

ApproveHire(h) ==
    /\ pooled[h].status = "FUNDED" /\ pooled' = [pooled EXCEPT ![h].status = "APPROVED", ![h].settlement = "READY"]
    /\ UNCHANGED <<pool, poolMoney, allocation, entitlement, refund, asked, funded>>

\* fulfill_entitlement by the owner, claim_entitlement by the creator.
Entitle(h, from, to) ==
    /\ entitlement[h] = from /\ entitlement' = [entitlement EXCEPT ![h] = to]
    /\ UNCHANGED <<pool, poolMoney, pooled, allocation, refund, asked, funded>>
FulfillEntitlement(h) == Entitle(h, "PENDING", "FULFILLED")
ClaimEntitlement(h) == Entitle(h, "FULFILLED", "CLAIMED")

-----------------------------------------------------------------------------
(* Settlement *)

\* A movement's reference: one per attempt of a reward.
ReleaseRefOnce(h, a, attempts) == <<h, a>>
ReleaseRef(h, a, attempts) == <<h, a, attempts>>

\* No required reward of the hire is outstanding.
Settled(al) == \A a \in Assets : al[a].required => al[a].state = "RELEASED"

\* finalizePoolOrder: the order is settled, and complete if its work was approved, once every required reward is released.
Completed(o, al) ==
    IF o.status \in {"APPROVED", "CANCELLED"} /\ o.settlement # "RELEASED" /\ Settled(al)
    THEN [o EXCEPT !.status = IF @ = "APPROVED" THEN "COMPLETED" ELSE @, !.settlement = "RELEASED"] ELSE o

\* releaseReadySettlements, settlePoolOrder: each still-active reward is queued once more.
SettlePoolOrder(h) ==
    LET active == {a \in Assets : allocation[h][a].state = "ACTIVE"}
        started == [a \in Assets |-> IF a \in active
                       THEN [allocation[h][a] EXCEPT !.state = "RELEASE_PENDING", !.attempts = @ + 1] ELSE allocation[h][a]]
    IN  /\ pooled[h].status \in {"APPROVED", "CANCELLED"} /\ pooled[h].settlement \in {"READY", "PENDING"}
        /\ active # {} \/ pooled[h].settlement = "READY"
        /\ \A a \in active : allocation[h][a].attempts < MaxReleases
        /\ allocation' = [allocation EXCEPT ![h] = started]
        /\ MoveBalance("RELEASE_START", {Move(a, started[a].amount, ReleaseRef(h, a, started[a].attempts)) : a \in active})
        /\ pooled' = [pooled EXCEPT ![h] = IF Settled(started) THEN Completed(@, started) ELSE [@ EXCEPT !.settlement = "PENDING"]]
        /\ UNCHANGED <<pool, entitlement, refund, asked, funded>>

\* Effects of a payout of a reward (completeIfSettled after a payment, or after an optional reward failed).  A failure
\* returns the reward to the hire for another attempt.
RewardPaid(h, a, paid) ==
    LET al == allocation[h][a]
        after == [allocation[h] EXCEPT ![a].state = IF paid THEN "RELEASED" ELSE "ACTIVE"]
    IN  /\ al.state = "RELEASE_PENDING"
        /\ MoveBalance(IF paid THEN "RELEASE_DONE" ELSE "RELEASE_FAILED", {Move(a, al.amount, ReleaseRef(h, a, al.attempts))})
        /\ allocation' = [allocation EXCEPT ![h] = after]
        /\ pooled' = [pooled EXCEPT ![h] = IF paid \/ ~al.required THEN Completed(@, after) ELSE @]
        /\ UNCHANGED <<pool, entitlement, refund, asked, funded>>

\* Effects of a payout of a pool refund.
PoolRefunded(a, k, paid) ==
    /\ k \in DOMAIN refund[a] /\ refund[a][k].state = "REFUND_PENDING"
    /\ MoveBalance(IF paid THEN "REFUND_DONE" ELSE "REFUND_FAILED", {Move(a, refund[a][k].amount, <<a, k>>)})
    /\ refund' = [refund EXCEPT ![a][k].state = IF paid THEN "REFUNDED" ELSE "FAILED"]
    /\ RefreshPoolStatus(pool.version)
    /\ UNCHANGED <<pooled, allocation, entitlement, asked, funded>>

PoolNext ==
    \/ UpdatePoolTemplate \/ ClosePool
    \/ \E a \in Assets : CreatePoolFundingIntent(a) \/ PoolDeposit(a) \/ \E n \in 1..balance[a].unallocated : RefundUnused(a, n)
    \/ \E h \in PoolHires : \/ OfferHire(h) \/ AllocateHire(h) \/ CancelHire(h) \/ CancelKeepingRewards(h) \/ ApproveHire(h)
                            \/ FulfillEntitlement(h) \/ ClaimEntitlement(h) \/ SettlePoolOrder(h)
    \/ \E a \in Assets, paid \in BOOLEAN : \/ \E h \in PoolHires : RewardPaid(h, a, paid)
                                           \/ \E k \in DOMAIN refund[a] : PoolRefunded(a, k, paid)

-----------------------------------------------------------------------------
(* Properties *)

AllocatedIn(a, state) == Total([h \in PoolHires |-> allocation[h][a].amount], {h \in PoolHires : allocation[h][a].state = state})
RefundsIn(a, state) == Total([k \in DOMAIN refund[a] |-> refund[a][k].amount], {k \in DOMAIN refund[a] : refund[a][k].state = state})

\* Each bucket holds exactly what the rewards and refunds in that state add up to, whatever order payouts confirm, fail
\* and are retried in, and the buckets add up to what was deposited.  A hire accepted from the pool holds every reward its
\* template requires, in full, whatever template replaced it since (allocateHire gives all or nothing), and it is settled
\* only when all of them are paid, the CASH one at the price its offer named; a REFUNDED one has paid nothing.  The pool is
\* ACTIVE exactly while its net deposits cover every required asset, and closes only when no hire waits for it.
PoolConserved ==
    /\ \A h \in PoolHires :
        LET terms == Templates[pooled[h].version]
        IN  /\ pooled[h].status \in {"FUNDED", "APPROVED", "CANCELLED", "COMPLETED"} =>
                  /\ "cash" \in terms.required /\ terms.cash = pooled[h].cash
                  /\ \A a \in terms.required : allocation[h][a].amount = terms[a] /\ allocation[h][a].state \in {"ACTIVE", "RELEASE_PENDING", "RELEASED"}
            /\ pooled[h].settlement = "RELEASED" => \A a \in terms.required : allocation[h][a].state = "RELEASED"
            /\ pooled[h].status = "REFUNDED" => \A a \in Assets : allocation[h][a].state \in {"NONE", "CANCELLED"}
    /\ pool.status # "CLOSED" => (pool.status = "ACTIVE" <=> Covered(pool.version, balance))
    /\ pool.status = "CLOSED" => \A h \in PoolHires : pooled[h].status \in {"NONE", "OFFERED", "REFUNDED"} \/ pooled[h].settlement = "RELEASED"
    /\ \A a \in Assets :
        LET b == balance[a]
        IN  /\ b.confirmed_deposit = funded[a] * PoolDeposits[a]
            /\ b.confirmed_deposit = b.unallocated + b.allocated_active + b.pending_outflow + b.released + b.refunded
            /\ b.allocated_active = AllocatedIn(a, "ACTIVE")
            /\ b.pending_outflow = AllocatedIn(a, "RELEASE_PENDING") + RefundsIn(a, "REFUND_PENDING")
            /\ b.released = AllocatedIn(a, "RELEASED") /\ b.refunded = RefundsIn(a, "REFUNDED")
=============================================================================
