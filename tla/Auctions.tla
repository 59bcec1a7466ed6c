----------------------------- MODULE Auctions -----------------------------
(***************************************************************************)
(* One creator's auction and workload (src/modules/auctions/commands.ts,   *)
(* src/modules/capacity/index.ts and the triggers of drizzle/0008, 0012    *)
(* and 0017): bids, Buy Now, close, seller cancellation and moderation     *)
(* race for the auction row; the units the auction holds move to the order *)
(* of its sale, are counted once, and come back when the order ends.       *)
(*                                                                         *)
(* Every command locks the auction row (or the order row, for an order)    *)
(* for its whole transaction, so each is one action; the triggers on       *)
(* claims and orders run inside it.  Deadlines are database time: the      *)
(* clock passes the start and the end of the auction on its own, and jobs  *)
(* may run late, twice or not at all before the next command.              *)
(***************************************************************************)
EXTENDS Integers, Sequences, FiniteSets

CONSTANTS
    Bidders,         \* accounts that may bid or buy
    Booked,          \* ids of orders booked or hired directly, each with its own claim
    Sale,            \* id of the order a sale of the auction creates
    Units,           \* units_per_order of each claim
    StartingPrice, MinimumIncrement, BuyNowPrice,
    Prices,          \* bound: amounts a bidder may name
    MaxBids          \* bound: bids accepted on the auction

Orders == Booked \cup {Sale}

ASSUME AuctionsAssumption ==
    /\ IsFiniteSet(Booked) /\ Sale \notin Booked /\ Units \in [Orders -> 1..10]
    /\ StartingPrice \in Nat \ {0} /\ MinimumIncrement \in Nat \ {0} /\ BuyNowPrice \in Nat /\ BuyNowPrice > StartingPrice
    /\ Prices \subseteq Nat \ {0} /\ MaxBids \in Nat

VARIABLES
    status,          \* auctions.status ("NONE": not created yet)
    clock,           \* database time against starts_at and ends_at
    firstBid,        \* auctions.first_valid_bid_at is set
    bids,            \* app.bids by sequence: [bidder, amount, valid]
    current,         \* auctions.current_bid_id and current_price_minor, with bid_count
    purchase,        \* the auction_purchase_intents row
    order,           \* orders.status of each order: AWAITING_PAYMENT, WORKING (funded to disputed), DONE, CANCELLED
    claim,           \* workload_claims.state of each order's claim; Sale's claim is the auction's until the sale
    moved,           \* that claim has order_id instead of auction_id
    held, active,    \* creator_workloads.held_units and active_units
    accepting        \* creator_workloads.accepting_orders

auctionRow == <<status, clock, firstBid, bids, current, purchase>>
workloadVars == <<claim, moved, held, active>>
auctionVars == <<auctionRow, order, workloadVars, accepting>>

OpenStatuses == {"SCHEDULED", "LIVE"}
OpenHold == {"HELD", "EXPIRY_RECONCILING"}
NoBid == [bid |-> 0, price |-> 0, count |-> 0]
NoIntent == [kind |-> "NONE", buyer |-> "none", bid |-> 0, amount |-> 0, status |-> "NONE"]

AuctionInit ==
    /\ status = "NONE" /\ clock = "BEFORE" /\ firstBid = FALSE /\ bids = <<>> /\ current = NoBid /\ purchase = NoIntent
    /\ order = [o \in Orders |-> "NONE"] /\ claim = [o \in Orders |-> "NONE"] /\ moved = FALSE
    /\ held = 0 /\ active = 0 /\ accepting = TRUE

-----------------------------------------------------------------------------
(* Workload claims *)

\* Mutant: units in reconciliation no longer count as held.
MoveClaimHeldOnly(o, new) ==
    LET count(s) == [held |-> IF s = "HELD" THEN Units[o] ELSE 0, active |-> IF s = "ACTIVE" THEN Units[o] ELSE 0]
    IN  /\ claim' = [claim EXCEPT ![o] = new]
        /\ held' = held - count(claim[o]).held + count(new).held
        /\ active' = active - count(claim[o]).active + count(new).active

\* The trigger app.workload_claim_counters: the counters follow the state of a claim in the same transaction.
MoveClaim(o, new) ==
    LET count(s) == [held |-> IF s \in OpenHold THEN Units[o] ELSE 0, active |-> IF s = "ACTIVE" THEN Units[o] ELSE 0]
    IN  /\ claim' = [claim EXCEPT ![o] = new]
        /\ held' = held - count(claim[o]).held + count(new).held
        /\ active' = active - count(claim[o]).active + count(new).active

\* claimWorkload: refused while the creator paused new orders.
ClaimWorkload(o) == accepting /\ claim[o] = "NONE" /\ MoveClaim(o, "HELD")

\* releaseAuctionClaim: only a claim that still belongs to the auction.
ReleaseAuctionClaim ==
    IF ~moved /\ claim[Sale] \in OpenHold THEN MoveClaim(Sale, "RELEASED") ELSE UNCHANGED <<claim, held, active>>

\* The claim with order_id = o.
ClaimOf(o) == IF o = Sale /\ ~moved THEN "NONE" ELSE claim[o]

\* app.order_workload_release: an order that ends frees its units, if its claim still counts.
ReleaseOrderClaim(o, new, from) ==
    IF ClaimOf(o) \in from THEN MoveClaim(o, new) ELSE UNCHANGED <<claim, held, active>>

SetAcceptingOrders ==
    /\ accepting' = ~accepting
    /\ UNCHANGED <<auctionRow, order, workloadVars>>

-----------------------------------------------------------------------------
(* Bids *)

Valid == {i \in 1..Len(bids) : bids[i].valid}

\* highestValidBid over bids b: the highest amount, then the earliest sequence; 0 when no bid is valid.
HighestOf(b) ==
    LET valid == {i \in 1..Len(b) : b[i].valid}
        ahead(i, j) == b[i].amount > b[j].amount \/ (b[i].amount = b[j].amount /\ i <= j)
    IN  IF valid = {} THEN 0 ELSE CHOOSE i \in valid : \A j \in valid : ahead(i, j)
HighestValidBid == HighestOf(bids)

NextMinimum == IF HighestValidBid = 0 THEN StartingPrice ELSE bids[HighestValidBid].amount + MinimumIncrement

\* assertBiddingWindow compares with now(), the time the transaction began: a bid or Buy Now that began in time and then
\* waited for the row lock is accepted after the end, as long as nobody closed the auction first.
BiddingWindow == status \in OpenStatuses /\ clock # "BEFORE"

Bid(bidder, amount) ==
    /\ BiddingWindow
    /\ amount >= NextMinimum
    /\ bids' = Append(bids, [bidder |-> bidder, amount |-> amount, valid |-> TRUE])
    /\ current' = [bid |-> Len(bids) + 1, price |-> amount, count |-> current.count + 1]
    /\ firstBid' = TRUE
    /\ status' = "LIVE"
    /\ UNCHANGED <<clock, purchase, order, workloadVars, accepting>>

\* invalidateBid and recomputeHighestBid: the bid stays in the history, the leader is recomputed.
InvalidateBid(i) ==
    /\ status \in OpenStatuses /\ i \in Valid
    /\ bids' = [bids EXCEPT ![i].valid = FALSE]
    /\ LET top == HighestOf(bids')
       IN  current' = [bid |-> top, price |-> IF top = 0 THEN 0 ELSE bids'[top].amount, count |-> Cardinality(Valid) - 1]
    /\ UNCHANGED <<status, clock, firstBid, purchase, order, workloadVars, accepting>>

-----------------------------------------------------------------------------
(* The sale *)

\* Mutant: the claim stays with the auction.
CreateSaleUnmoved(kind, buyer, bid, amount) ==
    /\ ~moved /\ claim[Sale] \in OpenHold
    /\ order' = [order EXCEPT ![Sale] = "AWAITING_PAYMENT"]
    /\ MoveClaim(Sale, "HELD") /\ UNCHANGED moved
    /\ purchase' = [kind |-> kind, buyer |-> buyer, bid |-> bid, amount |-> amount, status |-> "ACTIVE"]
    /\ status' = "AWAITING_WINNER_PAYMENT"
    /\ UNCHANGED <<clock, firstBid, bids, current, accepting>>

\* createSale: the pending order, the claim moved onto it, the purchase intent.
CreateSale(kind, buyer, bid, amount) ==
    /\ ~moved /\ claim[Sale] \in OpenHold
    /\ order' = [order EXCEPT ![Sale] = "AWAITING_PAYMENT"]
    /\ MoveClaim(Sale, "HELD") /\ moved' = TRUE
    /\ purchase' = [kind |-> kind, buyer |-> buyer, bid |-> bid, amount |-> amount, status |-> "ACTIVE"]
    /\ status' = "AWAITING_WINNER_PAYMENT"
    /\ UNCHANGED <<clock, firstBid, bids, current, accepting>>

CreateAuction(starts) ==
    /\ status = "NONE"
    /\ ClaimWorkload(Sale)
    /\ clock' = starts /\ status' = IF starts = "DURING" THEN "LIVE" ELSE "SCHEDULED"
    /\ UNCHANGED <<firstBid, bids, current, purchase, order, moved, accepting>>

\* Mutant: Buy Now looks at the current bid, which an invalidation clears.
BuyNowNoLeader(buyer) ==
    /\ current.bid = 0 /\ BiddingWindow
    /\ CreateSale("BUY_NOW", buyer, 0, BuyNowPrice)

BuyNow(buyer) ==
    /\ ~firstBid /\ BiddingWindow
    /\ CreateSale("BUY_NOW", buyer, 0, BuyNowPrice)

\* Mutant: only a started auction is closed.
CloseAuctionLive ==
    /\ status = "LIVE" /\ clock = "AFTER"
    /\ \/ /\ HighestValidBid = 0
          /\ status' = "NO_BIDS"
          /\ ReleaseAuctionClaim
          /\ UNCHANGED <<clock, firstBid, bids, current, purchase, order, moved, accepting>>
       \/ /\ HighestValidBid # 0
          /\ LET top == bids[HighestValidBid] IN CreateSale("WINNER", top.bidder, HighestValidBid, top.amount)

\* closeAuction, by the job or the seller, however late.
CloseAuction ==
    /\ status \in OpenStatuses /\ clock = "AFTER"
    /\ \/ /\ HighestValidBid = 0
          /\ status' = "NO_BIDS"
          /\ ReleaseAuctionClaim
          /\ UNCHANGED <<clock, firstBid, bids, current, purchase, order, moved, accepting>>
       \/ /\ HighestValidBid # 0
          /\ LET top == bids[HighestValidBid] IN CreateSale("WINNER", top.bidder, HighestValidBid, top.amount)

CancelAuction ==
    /\ status \in OpenStatuses /\ ~firstBid
    /\ status' = "CANCELLED"
    /\ ReleaseAuctionClaim
    /\ UNCHANGED <<clock, firstBid, bids, current, purchase, order, moved, accepting>>

\* closeDueAuctions, first statement (with the same stale now() after a wait for the row).
StartScheduled ==
    /\ status = "SCHEDULED" /\ clock # "BEFORE"
    /\ status' = "LIVE"
    /\ UNCHANGED <<clock, firstBid, bids, current, purchase, order, workloadVars, accepting>>

Tick ==
    /\ status # "NONE" /\ clock # "AFTER"
    /\ clock' = IF clock = "BEFORE" THEN "DURING" ELSE "AFTER"
    /\ UNCHANGED <<status, firstBid, bids, current, purchase, order, workloadVars, accepting>>

-----------------------------------------------------------------------------
(* Orders, as far as claims and the sale follow them *)

\* book, or accepting a hire offer.
Book(o) ==
    /\ order[o] = "NONE" /\ ClaimWorkload(o)
    /\ order' = [order EXCEPT ![o] = "AWAITING_PAYMENT"]
    /\ UNCHANGED <<auctionRow, moved, accepting>>

\* The trigger app.auction_order_sync on the sale's order.
SyncSale(o, sold, intentStatus) ==
    /\ purchase' = IF o = Sale THEN [purchase EXCEPT !.status = intentStatus] ELSE purchase
    /\ status' = IF o = Sale /\ status = "AWAITING_WINNER_PAYMENT" THEN sold ELSE status
    /\ UNCHANGED <<clock, firstBid, bids, current>>

\* Funding confirmed (applyFundingEvent): the claim is activated and the sale settles.
Fund(o) ==
    /\ order[o] = "AWAITING_PAYMENT" /\ ClaimOf(o) \in OpenHold
    /\ order' = [order EXCEPT ![o] = "WORKING"]
    /\ MoveClaim(o, "ACTIVE")
    /\ SyncSale(o, "SETTLED", "FUNDED")
    /\ UNCHANGED <<moved, accepting>>

\* The hold ends, or the buyer cancels, unpaid: the units come back and the winner defaults.
CancelUnpaid(o) ==
    /\ order[o] = "AWAITING_PAYMENT"
    /\ order' = [order EXCEPT ![o] = "CANCELLED"]
    /\ ReleaseOrderClaim(o, "RELEASED", OpenHold \cup {"ACTIVE"})
    /\ SyncSale(o, "WINNER_DEFAULTED", IF purchase.kind = "WINNER" THEN "DEFAULTED" ELSE "EXPIRED")
    /\ UNCHANGED <<moved, accepting>>

\* The hold expired but the payment is unresolved.
HoldReconciling(o) ==
    /\ order[o] = "AWAITING_PAYMENT" /\ ClaimOf(o) = "HELD"
    /\ MoveClaim(o, "EXPIRY_RECONCILING")
    /\ UNCHANGED <<auctionRow, order, moved, accepting>>

\* Approved work frees the units as done, a cancelled order as released.
FinishWork(o, new) ==
    /\ order[o] = "WORKING"
    /\ order' = [order EXCEPT ![o] = new]
    /\ \/ new = "DONE" /\ ReleaseOrderClaim(o, "DONE", {"ACTIVE"})
       \/ new = "CANCELLED" /\ ReleaseOrderClaim(o, "RELEASED", OpenHold \cup {"ACTIVE"})
    /\ UNCHANGED <<auctionRow, moved, accepting>>

-----------------------------------------------------------------------------
Auction ==
    \/ \E starts \in {"BEFORE", "DURING"} : CreateAuction(starts)
    \/ \E b \in Bidders : BuyNow(b) \/ \E amount \in Prices : Len(bids) < MaxBids /\ Bid(b, amount)
    \/ \E i \in 1..Len(bids) : InvalidateBid(i)
    \/ CloseAuction \/ CancelAuction \/ StartScheduled \/ Tick

OrderStep ==
    \E o \in Orders :
        \/ o # Sale /\ Book(o)
        \/ Fund(o) \/ CancelUnpaid(o) \/ HoldReconciling(o)
        \/ \E new \in {"DONE", "CANCELLED"} : FinishWork(o, new)

AuctionNext == Auction \/ OrderStep \/ SetAcceptingOrders

AuctionSpec == AuctionInit /\ [][AuctionNext]_auctionVars

-----------------------------------------------------------------------------
(* Properties *)

AuctionStatuses ==
    {"NONE", "SCHEDULED", "LIVE", "AWAITING_WINNER_PAYMENT", "SETTLED", "NO_BIDS", "CANCELLED", "WINNER_DEFAULTED"}
ClaimStates == {"NONE", "HELD", "EXPIRY_RECONCILING", "ACTIVE", "DONE", "RELEASED"}

\* Every column keeps its domain; the counters never go below zero (drizzle/0012 CHECK).
TypeOK ==
    /\ status \in AuctionStatuses /\ clock \in {"BEFORE", "DURING", "AFTER"} /\ firstBid \in BOOLEAN
    /\ order \in [Orders -> {"NONE", "AWAITING_PAYMENT", "WORKING", "DONE", "CANCELLED"}]
    /\ claim \in [Orders -> ClaimStates] /\ moved \in BOOLEAN /\ accepting \in BOOLEAN
    /\ held \in Nat /\ active \in Nat

\* The units of the claims in the given states, one element per unit.
CountedUnits(claims, states) ==
    {u \in Orders \X (1..10) : claims[u[1]] \in states /\ u[2] <= Units[u[1]]}

\* No drift (app.workload_counter_drift): the counters are the units of the claims in checkout and in progress,
\* through sale, reconciliation, default and pause.
CountersMatchClaims ==
    held = Cardinality(CountedUnits(claim, OpenHold)) /\ active = Cardinality(CountedUnits(claim, {"ACTIVE"}))

\* The auction, its sale's order and its claim tell one story: the units are held for the auction while it is open, for
\* the order while it is unpaid, and given back exactly once, when the auction ends unsold or the order ends.
SaleFollowsOrder ==
    /\ status \in OpenStatuses <=> ~moved /\ claim[Sale] \in OpenHold
    /\ status \in {"NO_BIDS", "CANCELLED"} <=> ~moved /\ claim[Sale] = "RELEASED"
    /\ status = "AWAITING_WINNER_PAYMENT" <=> order[Sale] = "AWAITING_PAYMENT"
    /\ status = "SETTLED" <=> moved /\ claim[Sale] \in {"ACTIVE", "DONE", "RELEASED"} /\ purchase.status = "FUNDED"
    /\ status = "WINNER_DEFAULTED" <=> purchase.status \in {"DEFAULTED", "EXPIRED"}
    /\ order[Sale] = "AWAITING_PAYMENT" => moved /\ claim[Sale] \in OpenHold /\ purchase.status = "ACTIVE"
    /\ order[Sale] = "WORKING" <=> claim[Sale] = "ACTIVE"

\* The cached leader is the highest valid bid and the earliest at its amount, whatever was bid and invalidated; every
\* valid bid beat the valid ones before it by the increment.
LeaderIsHighest ==
    /\ current.bid = HighestValidBid /\ current.count = Cardinality(Valid)
    /\ current.price = IF current.bid = 0 THEN 0 ELSE bids[current.bid].amount
    /\ \A i, j \in Valid : i < j => bids[j].amount >= bids[i].amount + MinimumIncrement

\* A closed auction sold to the highest bid that was still valid, and Buy Now only if nobody ever bid, even when every
\* bid was invalidated before.
SaleIsFair ==
    /\ purchase.kind = "WINNER" => /\ purchase.bid \in Valid /\ purchase.bid = HighestValidBid
                                 /\ purchase.amount = bids[purchase.bid].amount /\ purchase.buyer = bids[purchase.bid].bidder
    /\ purchase.kind = "BUY_NOW" => bids = <<>>

\* Bids, invalidations, extensions, Buy Now and the closing job in any order: the leader shown is the highest valid bid
\* and the auction sells to it, or by Buy Now only if nobody ever bid.
SoldToHighest == LeaderIsHighest /\ SaleIsFair

AuctionTransitions ==
    [NONE |-> {"SCHEDULED", "LIVE"}, SCHEDULED |-> {"LIVE", "NO_BIDS", "CANCELLED"},
     LIVE |-> {"AWAITING_WINNER_PAYMENT", "NO_BIDS"} \cup IF firstBid THEN {} ELSE {"CANCELLED"},
     AWAITING_WINNER_PAYMENT |-> {"SETTLED", "WINNER_DEFAULTED"},
     SETTLED |-> {}, NO_BIDS |-> {}, CANCELLED |-> {}, WINNER_DEFAULTED |-> {}]

\* No command or job ever trips app.auction_guard: no auction reopens, none with a bid is cancelled, and an auction that
\* never started is not sold, except by Buy Now, which starts it in the same transaction.
GuardRespected ==
    [][status' = status \/ status' \in AuctionTransitions[status]
       \/ (status = "SCHEDULED" /\ purchase'.kind = "BUY_NOW" /\ status' \in AuctionTransitions["LIVE"])]_auctionVars

\* An auction past its end is closed: with a sale, or without one and with its units freed.
AuctionCloses == clock = "AFTER" ~> status \notin OpenStatuses

=============================================================================
