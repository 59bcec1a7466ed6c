---------------------------- MODULE ItemAuctions ----------------------------
(***************************************************************************)
(* One item listing, its bids, its sale and the sandbox escrow behind it   *)
(* (src/modules/items).  The seller locks collateral; the highest bid or   *)
(* Buy now makes a sale; payment and collateral are held until delivery is *)
(* confirmed, defaulted or decided by an operator.  Commands and jobs lock *)
(* the listing and then the sale; only the jobs' lists are read before.    *)
(***************************************************************************)
EXTENDS Integers, FiniteSets, Totals

CONSTANTS
    Bidders,
    Starting, Increment, BuyNow, Collateral,   \* prices; BuyNow is NoPrice or above Starting
    MaxBid                                     \* bound: amount of a bid

NoPrice == 0
\* create_item_listing: collateral is at least a fifth of the starting price.
CollateralFloor == (Starting + 4) \div 5
ASSUME ItemAssumption ==
    /\ {Starting, Increment, BuyNow, Collateral, MaxBid} \subseteq Nat /\ Starting > 0 /\ Increment > 0
    /\ BuyNow = NoPrice \/ BuyNow > Starting
    /\ Collateral >= CollateralFloor
    /\ Bidders \cap {"seller", "collateral", "escrow"} = {}   \* the seller cannot buy from itself

VARIABLES
    listing,    \* [status, posted, bid, bidder, bids]
    itemSale,   \* [status, buyer, price, kind, resolution]
    account,    \* balances of "seller", each bidder, "collateral" and "escrow"
    itemPosted, \* keys of ledger transactions posted
    itemClock,  \* deadlines that have passed: "starts", "ends", "payment", "delivery", "confirm"
    itemDue     \* a sale listed by a running settleItemSales: why it is due

itemVars == <<listing, itemSale, account, itemPosted, itemClock, itemDue>>

NoSale == [status |-> "NONE", buyer |-> "none", price |-> 0, kind |-> "NONE", resolution |-> "NONE"]
Passed(d) == d \in itemClock

ItemInit ==
    /\ listing = [status |-> "AWAITING_COLLATERAL", posted |-> FALSE, bid |-> NoPrice, bidder |-> "none", bids |-> 0]
    /\ itemSale = NoSale /\ account = [x \in Bidders \cup {"seller", "collateral", "escrow"} |-> 0]
    /\ itemPosted = {} /\ itemDue = "NONE"
    /\ itemClock \in {{}, {"starts"}}

-----------------------------------------------------------------------------
(* The ledger *)

\* post: a balanced transaction per transfer, once per key.
Post(transfers) ==
    LET new == {t \in transfers : t.key \notin itemPosted}
        sum(ts) == Total([t \in ts |-> t.amount], ts)
    IN  /\ account' = [x \in DOMAIN account |-> account[x] + sum({t \in new : t.to = x}) - sum({t \in new : t.from = x})]
        /\ itemPosted' = itemPosted \cup {t.key : t \in new}
Transfer(key, from, to, amount) == [key |-> key, from |-> from, to |-> to, amount |-> amount]

ReleaseCollateral(to) == Transfer("collateral-release", "collateral", to, Collateral)
PaySeller == Transfer("payment-release", "escrow", "seller", itemSale.price)
RefundPayment == Transfer("payment-refund", "escrow", itemSale.buyer, itemSale.price)

-----------------------------------------------------------------------------
(* The listing *)

PostCollateral ==
    /\ listing.status = "AWAITING_COLLATERAL" /\ ~Passed("ends")
    /\ Post({Transfer("collateral-lock", "seller", "collateral", Collateral)})
    /\ listing' = [listing EXCEPT !.status = "OPEN", !.posted = TRUE]
    /\ UNCHANGED <<itemSale, itemClock, itemDue>>

CancelListing ==
    /\ listing.status \in {"AWAITING_COLLATERAL", "OPEN"} /\ listing.bids = 0
    /\ listing' = [listing EXCEPT !.status = "CANCELLED"]
    /\ Post(IF listing.posted THEN {ReleaseCollateral("seller")} ELSE {})
    /\ UNCHANGED <<itemSale, itemClock, itemDue>>

AssertLive == listing.status = "OPEN" /\ Passed("starts") /\ ~Passed("ends")

BidItem(b, amount) ==
    /\ AssertLive
    /\ amount >= IF listing.bids > 0 THEN listing.bid + Increment ELSE Starting
    /\ BuyNow # NoPrice => amount < BuyNow
    /\ listing' = [listing EXCEPT !.bid = amount, !.bidder = b, !.bids = @ + 1]
    /\ UNCHANGED <<itemSale, account, itemPosted, itemClock, itemDue>>

CreateSale(b, kind, price) ==
    /\ itemSale' = [status |-> "AWAITING_PAYMENT", buyer |-> b, price |-> price, kind |-> kind, resolution |-> "NONE"]
    /\ listing' = [listing EXCEPT !.status = "SOLD"]

BuyItemNow(b) ==
    /\ AssertLive /\ BuyNow # NoPrice /\ listing.bids = 0
    /\ CreateSale(b, "BUY_NOW", BuyNow)
    /\ UNCHANGED <<account, itemPosted, itemClock, itemDue>>

\* closeDueItemListings: the listing is read again under its lock.
CloseListing ==
    /\ Passed("ends")
    /\ \/ /\ listing.status = "AWAITING_COLLATERAL" /\ listing' = [listing EXCEPT !.status = "CANCELLED"]
          /\ UNCHANGED <<itemSale, account, itemPosted>>
       \/ /\ listing.status = "OPEN" /\ listing.bids = 0 /\ listing' = [listing EXCEPT !.status = "NO_BIDS"]
          /\ Post({ReleaseCollateral("seller")}) /\ UNCHANGED itemSale
       \/ /\ listing.status = "OPEN" /\ listing.bids > 0 /\ CreateSale(listing.bidder, "WINNER", listing.bid)
          /\ UNCHANGED <<account, itemPosted>>
    /\ UNCHANGED <<itemClock, itemDue>>

-----------------------------------------------------------------------------
(* The sale *)

SaleMoves(to, transfers) ==
    /\ itemSale' = [itemSale EXCEPT !.status = to] /\ Post(transfers)
    /\ UNCHANGED <<listing, itemClock>>

PaySale ==
    /\ itemSale.status = "AWAITING_PAYMENT" /\ ~Passed("payment") /\ UNCHANGED itemDue
    /\ SaleMoves("AWAITING_DELIVERY", {Transfer("payment-lock", itemSale.buyer, "escrow", itemSale.price)})

MarkDelivered ==
    /\ itemSale.status = "AWAITING_DELIVERY" /\ ~Passed("delivery") /\ UNCHANGED itemDue
    /\ SaleMoves("DELIVERED", {})

CompleteSale == SaleMoves("COMPLETED", {PaySeller, ReleaseCollateral("seller")})
DefaultSeller == SaleMoves("SELLER_DEFAULTED", {RefundPayment, ReleaseCollateral(itemSale.buyer)})

ConfirmReceived == itemSale.status = "DELIVERED" /\ CompleteSale /\ UNCHANGED itemDue

DisputeSale ==
    /\ itemSale.status = "AWAITING_DELIVERY" \/ (itemSale.status = "DELIVERED" /\ ~Passed("confirm"))
    /\ itemSale' = [itemSale EXCEPT !.status = "DISPUTED", !.resolution = "OPEN"]
    /\ UNCHANGED <<listing, account, itemPosted, itemClock, itemDue>>

ClaimRefund == itemSale.status = "AWAITING_DELIVERY" /\ Passed("delivery") /\ DefaultSeller /\ UNCHANGED itemDue

ResolveItemDispute(outcome) ==
    /\ itemSale.status = "DISPUTED"
    /\ itemSale' = [itemSale EXCEPT !.resolution = outcome,
                      !.status = CASE outcome = "RELEASE_TO_SELLER" -> "COMPLETED"
                                   [] outcome = "REFUND_WITH_COLLATERAL" -> "SELLER_DEFAULTED" [] OTHER -> "REFUNDED"]
    /\ Post(CASE outcome = "RELEASE_TO_SELLER" -> {PaySeller, ReleaseCollateral("seller")}
              [] outcome = "REFUND_WITH_COLLATERAL" -> {RefundPayment, ReleaseCollateral(itemSale.buyer)}
              [] OTHER -> {RefundPayment, ReleaseCollateral("seller")})
    /\ UNCHANGED <<listing, itemClock, itemDue>>

-----------------------------------------------------------------------------
(* The settlement job *)

DueFor == CASE itemSale.status = "AWAITING_PAYMENT" /\ Passed("payment") -> "payment"
            [] itemSale.status = "DELIVERED" /\ Passed("confirm") -> "confirm"
            [] itemSale.status = "AWAITING_DELIVERY" /\ Passed("delivery") -> "delivery"
            [] OTHER -> "NONE"

ListDueSale == itemDue = "NONE" /\ DueFor # "NONE" /\ itemDue' = DueFor /\ UNCHANGED <<listing, itemSale, account, itemPosted, itemClock>>

SettleFor(reason) ==
    CASE reason = "payment" -> SaleMoves("PAYMENT_EXPIRED", {ReleaseCollateral("seller")})
      [] reason = "confirm" -> CompleteSale
      [] reason = "delivery" -> DefaultSeller
      [] OTHER -> UNCHANGED <<listing, itemSale, account, itemPosted, itemClock>>

SettleAsListed == itemDue # "NONE" /\ itemDue' = "NONE" /\ SettleFor(itemDue)
\* settleItemSales decides again from the row it locks, not from the list.
SettleSale == itemDue # "NONE" /\ itemDue' = "NONE" /\ SettleFor(DueFor)

ItemTime(d) ==
    /\ ~Passed(d)
    /\ CASE d = "ends" -> Passed("starts") [] d = "delivery" -> Passed("ends")
         [] d = "payment" -> itemSale.status # "NONE" [] d = "confirm" -> itemSale.status \in {"DELIVERED", "DISPUTED"} [] OTHER -> TRUE
    /\ itemClock' = itemClock \cup {d}
    /\ UNCHANGED <<listing, itemSale, account, itemPosted, itemDue>>

ItemJob == CloseListing \/ ListDueSale \/ SettleSale
ItemPasses == \E d \in {"starts", "ends", "payment", "delivery", "confirm"} : ItemTime(d)
ItemNext ==
    \/ PostCollateral \/ CancelListing \/ PaySale \/ MarkDelivered \/ ConfirmReceived \/ DisputeSale \/ ClaimRefund
    \/ ItemJob \/ ItemPasses
    \/ \E b \in Bidders : BuyItemNow(b) \/ \E amount \in Starting..MaxBid : BidItem(b, amount)
    \/ \E outcome \in {"RELEASE_TO_SELLER", "REFUND_WITH_COLLATERAL", "REFUND"} : ResolveItemDispute(outcome)

-----------------------------------------------------------------------------
(* Properties *)

SaleOpen == {"AWAITING_PAYMENT", "AWAITING_DELIVERY", "DELIVERED", "DISPUTED"}
SaleHolds == {"AWAITING_DELIVERY", "DELIVERED", "DISPUTED"}

\* The two holding accounts hold exactly what is still undecided, and when a sale or listing is over its money is with
\* whom the outcome names; once disputed, only an operator's decision ends the sale, however the timers race it.
EscrowSettled ==
    /\ account["collateral"] = IF listing.status = "OPEN" \/ itemSale.status \in SaleOpen THEN Collateral ELSE 0
    /\ account["escrow"] = IF itemSale.status \in SaleHolds THEN itemSale.price ELSE 0
    /\ itemSale.status = "COMPLETED" => account["seller"] = itemSale.price /\ account[itemSale.buyer] = 0 - itemSale.price
    /\ itemSale.status = "SELLER_DEFAULTED" => account["seller"] = 0 - Collateral /\ account[itemSale.buyer] = Collateral
    /\ itemSale.status \in {"REFUNDED", "PAYMENT_EXPIRED"} => \A x \in DOMAIN account : account[x] = 0
    /\ itemSale.resolution = "OPEN" => itemSale.status = "DISPUTED"
=============================================================================
