-------------------------- MODULE AuctionsProofs --------------------------
(***************************************************************************)
(* Proofs about Auctions, for any bidders, orders, units, prices and       *)
(* number of bids.  Three layers are inductive one after the other: the    *)
(* bids and the cached leader (BidInv), the sale against its order and     *)
(* claim (SaleInv), and the counters against the claims                    *)
(* (CountersMatchClaims), which needs the cardinality of the units of a    *)
(* claim that moves.                                                       *)
(***************************************************************************)
EXTENDS Auctions, TLAPS, FiniteSetTheorems, FunctionTheorems, WellFoundedInduction

BidRecords == [bidder : Bidders, amount : Nat, valid : BOOLEAN]
IntentStatuses == {"NONE", "ACTIVE", "FUNDED", "DEFAULTED", "EXPIRED"}

\* The columns the proof reads.
Types ==
    /\ status \in AuctionStatuses /\ clock \in {"BEFORE", "DURING", "AFTER"}
    /\ order \in [Orders -> {"NONE", "AWAITING_PAYMENT", "WORKING", "DONE", "CANCELLED"}]
    /\ claim \in [Orders -> ClaimStates]
    /\ purchase = [kind |-> purchase.kind, buyer |-> purchase.buyer, bid |-> purchase.bid, amount |-> purchase.amount,
                 status |-> purchase.status]
    /\ purchase.status \in IntentStatuses /\ purchase.kind \in {"NONE", "WINNER", "BUY_NOW"}

Flags == firstBid \in BOOLEAN /\ moved \in BOOLEAN /\ accepting \in BOOLEAN

\* Bids and the leader; nobody bid before the auction started, nor without first_valid_bid_at being set.
BidInv ==
    /\ bids \in Seq(BidRecords) /\ LeaderIsHighest
    /\ status \in {"NONE", "SCHEDULED"} => bids = <<>>
    /\ ~firstBid => bids = <<>>

\* The sale; before it there is no purchase and no order.
SaleInv ==
    /\ Types /\ SaleFollowsOrder /\ SaleIsFair
    /\ status \in {"NONE"} \cup OpenStatuses => purchase.kind = "NONE"
    /\ moved <=> order[Sale] # "NONE"
    /\ claim[Sale] = "NONE" <=> status = "NONE"
    /\ status = "NONE" => ~moved
    /\ purchase.status = "NONE" <=> ~moved

IInv == Flags /\ BidInv /\ SaleInv /\ CountersMatchClaims

-----------------------------------------------------------------------------
(* Units and counters *)

\* A claim of an order has one element per unit of that order.
LEMMA OwnUnits ==
    ASSUME NEW o \in Orders
    PROVE  /\ IsFiniteSet({o} \X (1..Units[o])) /\ Cardinality({o} \X (1..Units[o])) = Units[o]
           /\ {o} \X (1..Units[o]) = {u \in Orders \X (1..10) : u[1] = o /\ u[2] <= Units[u[1]]}
<1>1. Units[o] \in 1..10
    BY AuctionsAssumption
<1> DEFINE f == [k \in 1..Units[o] |-> <<o, k>>]
<1>2. f \in Bijection(1..Units[o], {o} \X (1..Units[o]))
  <2>1. f \in Injection(1..Units[o], {o} \X (1..Units[o]))
      BY DEF Injection, IsInjective
  <2>2. f \in Surjection(1..Units[o], {o} \X (1..Units[o]))
      BY DEF Surjection
  <2> QED
      BY <2>1, <2>2 DEF Bijection
<1>3. IsFiniteSet(1..Units[o]) /\ Cardinality(1..Units[o]) = Units[o]
    BY <1>1, FS_Interval
<1>4. ExistsBijection(1..Units[o], {o} \X (1..Units[o]))
    BY <1>2 DEF ExistsBijection
<1>5. {o} \X (1..Units[o]) = {u \in Orders \X (1..10) : u[1] = o /\ u[2] <= Units[u[1]]}
    BY <1>1
<1> QED
    BY <1>3, <1>4, <1>5, FS_Bijection

\* All units there are: finitely many.
LEMMA UnitsFinite == IsFiniteSet(Orders \X (1..10))
<1>1. IsFiniteSet(Orders)
    BY AuctionsAssumption, FS_AddElement DEF Orders
<1>2. \A n \in Int : IsFiniteSet(1..n)
    BY FS_Interval
<1>3. 10 \in Int
    OBVIOUS
<1>4. IsFiniteSet(1..10)
    BY <1>2, <1>3, Zenon
<1> QED
    BY <1>1, <1>4, FS_Product

\* When one claim changes, the counted units change by that claim's units and by no others.
LEMMA UnitsMove ==
    ASSUME NEW c \in [Orders -> ClaimStates], NEW d \in [Orders -> ClaimStates], NEW o \in Orders, NEW S,
           \A p \in Orders \ {o} : d[p] = c[p]
    PROVE  /\ Cardinality(CountedUnits(c, S)) \in Nat
           /\ Cardinality(CountedUnits(d, S))
                = Cardinality(CountedUnits(c, S)) - (IF c[o] \in S THEN Units[o] ELSE 0) + (IF d[o] \in S THEN Units[o] ELSE 0)
<1> DEFINE Mine == {o} \X (1..Units[o])
           Rest(e) == {u \in CountedUnits(e, S) : u[1] # o}
<1>0. Units[o] \in Nat
    BY AuctionsAssumption
<1>1. ASSUME NEW e \in [Orders -> ClaimStates]
      PROVE  /\ IsFiniteSet(CountedUnits(e, S)) /\ IsFiniteSet(Rest(e)) /\ Cardinality(Rest(e)) \in Nat
             /\ Cardinality(CountedUnits(e, S)) = Cardinality(Rest(e)) + IF e[o] \in S THEN Units[o] ELSE 0
  <2>1. IsFiniteSet(CountedUnits(e, S)) /\ IsFiniteSet(Rest(e))
      BY UnitsFinite, FS_Subset DEF CountedUnits
  <2>4. Cardinality(Rest(e)) \in Nat
      BY <2>1, FS_CardinalityType
  <2>2. CASE e[o] \in S
    <3>1. CountedUnits(e, S) = Rest(e) \cup Mine
        BY <2>2, OwnUnits DEF CountedUnits
    <3>2. Rest(e) \cap Mine = {}
        BY OwnUnits
    <3>3. IsFiniteSet(Mine) /\ Cardinality(Mine) = Units[o]
        BY OwnUnits
    <3>4. Cardinality(Rest(e) \cup Mine) = Cardinality(Rest(e)) + Cardinality(Mine) - Cardinality({})
        BY <2>1, <3>2, <3>3, FS_Union
    <3>5. Cardinality({}) = 0
        BY FS_EmptySet
    <3> HIDE DEF Rest, Mine
    <3> QED
        BY <2>1, <2>2, <2>4, <3>1, <3>3, <3>4, <3>5, <1>0
  <2>3. CASE e[o] \notin S
    <3>1. CountedUnits(e, S) = Rest(e)
        BY <2>3 DEF CountedUnits
    <3> HIDE DEF Rest
    <3> QED
        BY <2>1, <2>3, <2>4, <3>1
  <2> QED
      BY <2>1, <2>2, <2>3, <2>4
<1>3. Rest(d) = Rest(c)
    BY DEF CountedUnits
<1>4. /\ Cardinality(Rest(c)) \in Nat
      /\ Cardinality(CountedUnits(c, S)) = Cardinality(Rest(c)) + IF c[o] \in S THEN Units[o] ELSE 0
    BY <1>1
<1>5. Cardinality(CountedUnits(d, S)) = Cardinality(Rest(d)) + IF d[o] \in S THEN Units[o] ELSE 0
    BY <1>1
<1> HIDE DEF Rest
<1> QED
    BY <1>0, <1>3, <1>4, <1>5

\* The counter trigger: a claim that moves keeps the counters equal to the units of the claims.
LEMMA CountersMove ==
    ASSUME claim \in [Orders -> ClaimStates], CountersMatchClaims, NEW o \in Orders, NEW new \in ClaimStates, MoveClaim(o, new)
    PROVE  CountersMatchClaims'
<1>1. claim' \in [Orders -> ClaimStates] /\ claim'[o] = new /\ \A p \in Orders \ {o} : claim'[p] = claim[p]
    BY DEF MoveClaim
<1>2. ASSUME NEW S
      PROVE  /\ Cardinality(CountedUnits(claim, S)) \in Nat
             /\ Cardinality(CountedUnits(claim', S))
                  = Cardinality(CountedUnits(claim, S)) - (IF claim[o] \in S THEN Units[o] ELSE 0)
                      + (IF claim'[o] \in S THEN Units[o] ELSE 0)
    BY <1>1, UnitsMove
<1>3. \A s \in ClaimStates : s \in {"ACTIVE"} <=> s = "ACTIVE"
    OBVIOUS
<1>4. Units[o] \in Nat
    BY AuctionsAssumption
<1> QED
    BY <1>1, <1>2, <1>3, <1>4 DEF CountersMatchClaims, MoveClaim

\* What a claim move does to the claims, without the arithmetic of its counters.
LEMMA ClaimMoves ==
    ASSUME claim \in [Orders -> ClaimStates], NEW o \in Orders, NEW new \in ClaimStates, MoveClaim(o, new)
    PROVE  claim' = [claim EXCEPT ![o] = new] /\ claim' \in [Orders -> ClaimStates]
BY DEF MoveClaim

-----------------------------------------------------------------------------
(* Bids *)

\* A nonempty set of indices has a last index (the order on the naturals is well-founded).
LEMMA LastIndex ==
    ASSUME NEW n \in Nat, NEW T \in SUBSET (1..n), T # {}
    PROVE  \E x \in T : \A y \in T : y <= x
<1> DEFINE Less == {ss \in Nat \X Nat : ss[1] < ss[2]}
           D == {n - i : i \in T}
<1>1. IsWellFoundedOn(Less, Nat)
    BY NatLessThanWellFounded DEF OpToRel
<1>0. \A i \in T : i \in Nat /\ n - i \in Nat
    OBVIOUS
<1>2. D \subseteq Nat /\ D # {}
    BY <1>0
<1> HIDE DEF Less, D
<1>3. PICK x \in D : \A y \in D : <<y, x>> \notin Less
    BY <1>1, <1>2, WFMin
<1> USE DEF Less, D
<1>4. PICK i \in T : x = n - i
    BY <1>3
<1>5. ASSUME NEW j \in T
      PROVE  j <= i
  <2>1. n - j \in D /\ n - j \in Nat /\ x \in Nat /\ i \in Nat /\ j \in Nat
      BY <1>0, <1>4
  <2>2. <<n - j, x>> \notin Less
      BY <1>3, <2>1
  <2>3. ~(n - j < x)
      BY <2>1, <2>2
  <2> QED
      BY <1>4, <2>1, <2>3
<1> QED
    BY <1>5

\* What a bid of the history looks like.
LEMMA BidRecord ==
    ASSUME NEW b \in Seq(BidRecords)
    PROVE  \A k \in 1..Len(b) : b[k] \in BidRecords /\ b[k].amount \in Nat
<1>1. \A k \in 1..Len(b) : b[k] \in BidRecords
    OBVIOUS
<1>2. \A r \in BidRecords : r.amount \in Nat
    BY DEF BidRecords
<1> QED
    BY <1>1, <1>2

\* highestValidBid on a climbing history: the last valid bid, which is the only candidate.
LEMMA HighestIsLast ==
    ASSUME NEW b \in Seq(BidRecords),
           \A i, j \in {k \in 1..Len(b) : b[k].valid} : i < j => b[j].amount >= b[i].amount + MinimumIncrement
    PROVE  LET valid == {k \in 1..Len(b) : b[k].valid}
           IN  /\ valid = {} <=> HighestOf(b) = 0
               /\ valid # {} => HighestOf(b) \in valid /\ \A j \in valid : j <= HighestOf(b)
<1> DEFINE valid == {k \in 1..Len(b) : b[k].valid}
           ahead(i, j) == b[i].amount > b[j].amount \/ (b[i].amount = b[j].amount /\ i <= j)
<1>1. /\ Len(b) \in Nat /\ valid \subseteq 1..Len(b)
      /\ \A i \in valid : i \in Nat /\ i # 0 /\ b[i].amount \in Nat
    BY BidRecord
<1>2. MinimumIncrement \in Nat \ {0}
    BY AuctionsAssumption
<1>3. CASE valid = {}
    BY <1>3 DEF HighestOf
<1>4. CASE valid # {}
  <2>1. PICK x \in valid : \A j \in valid : j <= x
      BY <1>1, <1>4, LastIndex
  <2>2. HighestOf(b) = CHOOSE i \in valid : \A j \in valid : ahead(i, j)
      BY <1>4 DEF HighestOf
  <2>3. \A j \in valid : j < x => b[x].amount >= b[j].amount + MinimumIncrement
      BY <2>1
  <2> HIDE DEF valid
  <2>4. \A j \in valid : ahead(x, j)
      BY <1>1, <1>2, <2>1, <2>3
  <2>5. HighestOf(b) \in valid /\ \A j \in valid : ahead(HighestOf(b), j)
    <3> HIDE DEF ahead
    <3> QED
        BY <2>1, <2>2, <2>4
  <2>6. HighestOf(b) = x
      BY <1>1, <1>2, <2>1, <2>3, <2>5
  <2> QED
      BY <1>1, <1>4, <2>1, <2>6 DEF valid
<1> QED
    BY <1>3, <1>4

\* Every bid stays below the highest valid one by the increment.
LEMMA BelowHighest ==
    ASSUME bids \in Seq(BidRecords), LeaderIsHighest
    PROVE  /\ Len(bids) \in Nat /\ Valid \subseteq 1..Len(bids) /\ IsFiniteSet(Valid)
           /\ Valid = {} <=> HighestValidBid = 0
           /\ Valid # {} => HighestValidBid \in Valid
           /\ \A i \in Valid : i <= HighestValidBid /\ bids[i].amount <= bids[HighestValidBid].amount
           /\ NextMinimum \in Nat
<1>1. /\ Valid = {} <=> HighestValidBid = 0
      /\ Valid # {} => HighestValidBid \in Valid /\ \A j \in Valid : j <= HighestValidBid
    BY HighestIsLast DEF LeaderIsHighest, Valid, HighestValidBid
<1>2. /\ Len(bids) \in Nat /\ Valid \subseteq 1..Len(bids)
      /\ \A i \in Valid : i \in Nat /\ bids[i].amount \in Nat
    BY BidRecord DEF Valid
<1>3. IsFiniteSet(1..Len(bids))
    BY <1>2, FS_Interval
<1>4. IsFiniteSet(Valid)
    BY <1>2, <1>3, FS_Subset
<1>5. MinimumIncrement \in Nat /\ StartingPrice \in Nat
    BY AuctionsAssumption
<1>6. \A i, j \in Valid : i < j => bids[j].amount >= bids[i].amount + MinimumIncrement
    BY DEF LeaderIsHighest
<1>7. \A i \in Valid : i <= HighestValidBid /\ bids[i].amount <= bids[HighestValidBid].amount
  <2> SUFFICES ASSUME NEW i \in Valid
               PROVE  i <= HighestValidBid /\ bids[i].amount <= bids[HighestValidBid].amount
      OBVIOUS
  <2>1. HighestValidBid \in Valid /\ i <= HighestValidBid
      BY <1>1
  <2>2. i < HighestValidBid => bids[HighestValidBid].amount >= bids[i].amount + MinimumIncrement
      BY <1>6, <2>1
  <2>3. /\ i \in Nat /\ HighestValidBid \in Nat /\ bids[i].amount \in Nat /\ bids[HighestValidBid].amount \in Nat
      BY <1>2, <2>1
  <2> QED
      BY <1>5, <2>1, <2>2, <2>3
<1>8. NextMinimum \in Nat
  <2>1. HighestValidBid # 0 => bids[HighestValidBid].amount \in Nat
      BY <1>1, <1>2
  <2> QED
      BY <1>5, <2>1 DEF NextMinimum
<1> QED
    BY <1>1, <1>2, <1>4, <1>7, <1>8

\* A bid leads: the history keeps climbing and the cached leader is the new bid.
LEMMA BidKeepsLeader ==
    ASSUME bids \in Seq(BidRecords), LeaderIsHighest, NEW bidder \in Bidders, NEW amount \in Nat, Bid(bidder, amount)
    PROVE  bids' \in Seq(BidRecords) /\ LeaderIsHighest'
<1> DEFINE n == Len(bids) + 1
           new == [bidder |-> bidder, amount |-> amount, valid |-> TRUE]
<1>1. bids' = Append(bids, new) /\ new \in BidRecords
    BY DEF Bid, BidRecords
<1>2. /\ bids' \in Seq(BidRecords) /\ Len(bids') = n /\ n \in Nat
      /\ \A i \in 1..Len(bids) : bids'[i] = bids[i]
      /\ bids'[n] = new
    BY <1>1
<1>3. Valid' = Valid \cup {n} /\ n \notin Valid
    BY <1>2 DEF Valid
<1>4. /\ \A i \in Valid : i \in Nat /\ i < n /\ bids[i].amount \in Nat /\ bids'[i] = bids[i]
    BY <1>2, BidRecord DEF Valid
<1>5. MinimumIncrement \in Nat
    BY AuctionsAssumption
<1>6. \A i \in Valid : amount >= bids[i].amount + MinimumIncrement
  <2>1. amount >= NextMinimum
      BY DEF Bid
  <2>2. Valid # {} => NextMinimum = bids[HighestValidBid].amount + MinimumIncrement /\ bids[HighestValidBid].amount \in Nat
      BY <1>4, BelowHighest DEF NextMinimum
  <2> QED
      BY <1>4, <1>5, <2>1, <2>2, BelowHighest
<1>7. \A i, j \in Valid' : i < j => bids'[j].amount >= bids'[i].amount + MinimumIncrement
  <2>1. \A i, j \in Valid : i < j => bids[j].amount >= bids[i].amount + MinimumIncrement
      BY DEF LeaderIsHighest
  <2>2. bids'[n].amount = amount
      BY <1>2
  <2> HIDE DEF n, new
  <2> QED
      BY <1>2, <1>3, <1>4, <1>6, <2>1, <2>2
<1>8. HighestValidBid' = n
  <2>1. HighestValidBid' \in Valid' /\ \A j \in Valid' : j <= HighestValidBid'
    <3>1. Valid' # {}
        BY <1>3
    <3> QED
        BY <1>2, <1>7, <3>1, HighestIsLast DEF Valid, HighestValidBid
  <2> HIDE DEF n
  <2> QED
      BY <1>2, <1>3, <1>4, <2>1
<1>9. Cardinality(Valid') = Cardinality(Valid) + 1
    BY <1>3, BelowHighest, FS_AddElement
<1>10. /\ current'.bid = n /\ current'.price = amount /\ current'.count = current.count + 1
       /\ current.count = Cardinality(Valid) /\ n # 0 /\ bids'[n].amount = amount
    BY <1>2 DEF Bid, LeaderIsHighest
<1> QED
    BY <1>2, <1>7, <1>8, <1>9, <1>10 DEF LeaderIsHighest

\* An invalidated bid loses the lead to the highest bid that is left.
LEMMA InvalidateKeepsLeader ==
    ASSUME bids \in Seq(BidRecords), LeaderIsHighest, NEW i \in 1..Len(bids), InvalidateBid(i)
    PROVE  bids' \in Seq(BidRecords) /\ LeaderIsHighest' /\ bids # <<>>
<1>1. bids' = [bids EXCEPT ![i].valid = FALSE] /\ i \in Valid
    BY DEF InvalidateBid
<1>2. /\ bids' \in Seq(BidRecords) /\ Len(bids') = Len(bids) /\ ~bids'[i].valid
      /\ \A j \in 1..Len(bids) : bids'[j].amount = bids[j].amount /\ (j # i => bids'[j] = bids[j])
  <2>1. bids' = [bids EXCEPT ![i] = [bids[i] EXCEPT !.valid = FALSE]]
      BY <1>1
  <2>2. /\ [bids[i] EXCEPT !.valid = FALSE] \in BidRecords /\ [bids[i] EXCEPT !.valid = FALSE].amount = bids[i].amount
        /\ ~[bids[i] EXCEPT !.valid = FALSE].valid
      BY BidRecord DEF BidRecords
  <2> QED
      BY <2>1, <2>2
<1>3. Valid' = Valid \ {i}
    BY <1>2 DEF Valid
<1>4. Valid \subseteq 1..Len(bids)
    BY DEF Valid
<1>5. \A k, j \in Valid' : k < j => bids'[j].amount >= bids'[k].amount + MinimumIncrement
    BY <1>2, <1>3, <1>4 DEF LeaderIsHighest
<1>6. /\ Valid' = {} <=> HighestValidBid' = 0
      /\ Valid' # {} => HighestValidBid' \in Valid'
    BY <1>2, <1>5, HighestIsLast DEF Valid, HighestValidBid
<1>7. Cardinality(Valid') = Cardinality(Valid) - 1
    BY <1>1, <1>3, BelowHighest, FS_RemoveElement
<1>8. /\ current'.bid = HighestValidBid' /\ current'.count = Cardinality(Valid) - 1
      /\ current'.price = IF HighestValidBid' = 0 THEN 0 ELSE bids'[HighestValidBid'].amount
    BY DEF InvalidateBid, HighestValidBid
<1> QED
    BY <1>1, <1>2, <1>5, <1>6, <1>7, <1>8 DEF LeaderIsHighest

-----------------------------------------------------------------------------
(* The invariant *)

\* The empty tables satisfy the invariant.
LEMMA InitInv == AuctionInit => IInv
<1> SUFFICES ASSUME AuctionInit PROVE IInv
    OBVIOUS
<1>1. bids \in Seq(BidRecords) /\ Len(bids) = 0
    BY DEF AuctionInit
<1>2. Valid = {}
    BY <1>1 DEF Valid
<1>3. HighestValidBid = 0
    BY <1>2 DEF HighestValidBid, HighestOf, Valid
<1>4. Cardinality({}) = 0
    BY FS_EmptySet
<1>5. LeaderIsHighest
    BY <1>2, <1>3, <1>4 DEF LeaderIsHighest, AuctionInit, NoBid
<1>6. Sale \in Orders
    BY DEF Orders
<1>7. SaleInv
    BY <1>6 DEF SaleInv, Types, SaleFollowsOrder, SaleIsFair, AuctionInit, NoIntent, AuctionStatuses, ClaimStates, IntentStatuses, OpenStatuses, OpenHold
<1>8. CountersMatchClaims
  <2>1. CountedUnits(claim, OpenHold) = {} /\ CountedUnits(claim, {"ACTIVE"}) = {}
      BY DEF AuctionInit, CountedUnits, OpenHold
  <2> QED
      BY <1>4, <2>1 DEF CountersMatchClaims, AuctionInit
<1>9. Flags
    BY Zenon DEF Flags, AuctionInit
<1> QED
    BY <1>1, <1>5, <1>7, <1>8, <1>9 DEF IInv, BidInv, AuctionInit

\* Every step keeps the Boolean columns Boolean.
LEMMA FlagsStep == ASSUME Flags, [AuctionNext]_auctionVars PROVE Flags'
<1> USE DEF Flags
<1>1. CASE SetAcceptingOrders
    BY <1>1, Zenon DEF SetAcceptingOrders, auctionRow, workloadVars
<1>2. ASSUME NEW o \in Orders, Book(o) \/ Fund(o) \/ CancelUnpaid(o) \/ HoldReconciling(o) \/ \E new \in {"DONE", "CANCELLED"} : FinishWork(o, new)
      PROVE  Flags'
    BY <1>2, Zenon DEF Book, Fund, CancelUnpaid, HoldReconciling, FinishWork, SyncSale, auctionRow
<1>3. ASSUME NEW kind, NEW buyer, NEW bid, NEW amount, CreateSale(kind, buyer, bid, amount)
      PROVE  Flags'
    BY <1>3, Zenon DEF CreateSale
<1>4. ASSUME Auction
      PROVE  Flags'
  <2>1. ASSUME NEW starts, CreateAuction(starts) PROVE Flags'
      BY <2>1, Zenon DEF CreateAuction
  <2>2. ASSUME NEW b, BuyNow(b) PROVE Flags'
      BY <1>3, <2>2, Zenon DEF BuyNow
  <2>3. ASSUME NEW b, NEW amount, Bid(b, amount) PROVE Flags'
      BY <2>3, Zenon DEF Bid, workloadVars
  <2>4. ASSUME NEW i, InvalidateBid(i) PROVE Flags'
      BY <2>4, Zenon DEF InvalidateBid, workloadVars
  <2>5. CASE CloseAuction
      BY <1>3, <2>5, Zenon DEF CloseAuction
  <2>6. CASE CancelAuction
      BY <2>6, Zenon DEF CancelAuction
  <2>7. CASE StartScheduled \/ Tick
      BY <2>7, Zenon DEF StartScheduled, Tick, workloadVars
  <2> QED
      BY <1>4, <2>1, <2>2, <2>3, <2>4, <2>5, <2>6, <2>7, Zenon DEF Auction
<1>5. CASE UNCHANGED auctionVars
    BY <1>5, Zenon DEF auctionVars, auctionRow, workloadVars
<1> QED
    BY <1>1, <1>2, <1>4, <1>5, Zenon DEF AuctionNext, OrderStep

\* Every step keeps the leader and the history of bids.
LEMMA BidStep == ASSUME BidInv, [AuctionNext]_auctionVars PROVE BidInv'
<1> USE DEF BidInv
<1>1. ASSUME UNCHANGED <<bids, current, firstBid>>, status' \in {"NONE", "SCHEDULED"} => status \in {"NONE", "SCHEDULED"}
      PROVE  BidInv'
    BY <1>1 DEF LeaderIsHighest, HighestValidBid, Valid
<1>2. ASSUME NEW kind, NEW buyer, NEW bid, NEW amount, CreateSale(kind, buyer, bid, amount)
      PROVE  BidInv'
    BY <1>1, <1>2 DEF CreateSale
<1>3. ASSUME NEW starts, CreateAuction(starts) PROVE BidInv'
    BY <1>1, <1>3 DEF CreateAuction
<1>4. ASSUME NEW b, BuyNow(b) PROVE BidInv'
    BY <1>2, <1>4 DEF BuyNow
<1>5. ASSUME NEW b \in Bidders, NEW amount \in Prices, Bid(b, amount) PROVE BidInv'
  <2>1. amount \in Nat
      BY AuctionsAssumption
  <2>2. bids' \in Seq(BidRecords) /\ LeaderIsHighest'
      BY <1>5, <2>1, BidKeepsLeader
  <2>3. status' = "LIVE" /\ firstBid'
      BY <1>5 DEF Bid
  <2> QED
      BY <2>2, <2>3
<1>6. ASSUME NEW i \in 1..Len(bids), InvalidateBid(i) PROVE BidInv'
  <2>1. bids' \in Seq(BidRecords) /\ LeaderIsHighest' /\ bids # <<>>
      BY <1>6, InvalidateKeepsLeader
  <2>2. UNCHANGED <<status, firstBid>>
      BY <1>6 DEF InvalidateBid
  <2> QED
      BY <2>1, <2>2
<1>7. CASE CloseAuction
    BY <1>1, <1>2, <1>7 DEF CloseAuction
<1>8. CASE CancelAuction
    BY <1>1, <1>8 DEF CancelAuction
<1>9. CASE StartScheduled \/ Tick
    BY <1>1, <1>9 DEF StartScheduled, Tick
<1>10. CASE OrderStep
    BY <1>1, <1>10 DEF OrderStep, Book, Fund, CancelUnpaid, HoldReconciling, FinishWork, SyncSale, auctionRow
<1>11. CASE SetAcceptingOrders \/ UNCHANGED auctionVars
    BY <1>1, <1>11 DEF SetAcceptingOrders, auctionVars, auctionRow
<1> QED
    BY <1>3, <1>4, <1>5, <1>6, <1>7, <1>8, <1>9, <1>10, <1>11 DEF AuctionNext, Auction

\* A step that is no claim move leaves the counters; every claim move is counted.
LEMMA CounterStep == ASSUME Types, CountersMatchClaims, [AuctionNext]_auctionVars PROVE CountersMatchClaims'
<1> USE DEF Types
<1>1. ASSUME UNCHANGED <<claim, held, active>> PROVE CountersMatchClaims'
    BY <1>1 DEF CountersMatchClaims
<1>2. ASSUME NEW o \in Orders, NEW new \in {"HELD", "EXPIRY_RECONCILING", "ACTIVE", "DONE", "RELEASED"}, MoveClaim(o, new)
      PROVE  CountersMatchClaims'
    BY <1>2, CountersMove DEF ClaimStates
<1>3. Sale \in Orders
    BY DEF Orders
<1>4. ASSUME NEW kind, NEW buyer, NEW bid, NEW amount, CreateSale(kind, buyer, bid, amount)
      PROVE  CountersMatchClaims'
    BY <1>2, <1>3, <1>4 DEF CreateSale
<1>5. ASSUME ReleaseAuctionClaim PROVE CountersMatchClaims'
    BY <1>1, <1>2, <1>3, <1>5 DEF ReleaseAuctionClaim
<1>6. CASE Auction
  <2>1. ASSUME NEW starts, CreateAuction(starts) PROVE CountersMatchClaims'
      BY <1>2, <1>3, <2>1 DEF CreateAuction, ClaimWorkload
  <2>2. ASSUME NEW b, BuyNow(b) PROVE CountersMatchClaims'
      BY <1>4, <2>2 DEF BuyNow
  <2>3. ASSUME NEW b, NEW amount, Bid(b, amount) PROVE CountersMatchClaims'
      BY <1>1, <2>3 DEF Bid, workloadVars
  <2>4. ASSUME NEW i, InvalidateBid(i) PROVE CountersMatchClaims'
      BY <1>1, <2>4 DEF InvalidateBid, workloadVars
  <2>5. CASE CloseAuction
      BY <1>4, <1>5, <2>5 DEF CloseAuction
  <2>6. CASE CancelAuction
      BY <1>5, <2>6 DEF CancelAuction
  <2>7. CASE StartScheduled \/ Tick
      BY <1>1, <2>7 DEF StartScheduled, Tick, workloadVars
  <2> QED
      BY <1>6, <2>1, <2>2, <2>3, <2>4, <2>5, <2>6, <2>7 DEF Auction
<1>7. ASSUME NEW o \in Orders, Book(o) \/ Fund(o) \/ CancelUnpaid(o) \/ HoldReconciling(o) \/ \E new \in {"DONE", "CANCELLED"} : FinishWork(o, new)
      PROVE  CountersMatchClaims'
    BY <1>1, <1>2, <1>7 DEF Book, ClaimWorkload, Fund, CancelUnpaid, HoldReconciling, FinishWork, ReleaseOrderClaim
<1>8. CASE SetAcceptingOrders \/ UNCHANGED auctionVars
    BY <1>1, <1>8 DEF SetAcceptingOrders, auctionVars, workloadVars
<1> QED
    BY <1>6, <1>7, <1>8 DEF AuctionNext, OrderStep

\* Every step keeps the auction, its sale, the sale's order and its claim consistent, and the sale fair.
LEMMA SaleStep == ASSUME Flags, BidInv, SaleInv, [AuctionNext]_auctionVars PROVE SaleInv'
<1> USE DEF SaleInv, Types, SaleFollowsOrder, AuctionStatuses, ClaimStates, IntentStatuses, OpenStatuses, OpenHold
<1>0. Sale \in Orders
    BY DEF Orders
<1>1. ASSUME UNCHANGED <<bids, purchase>> PROVE SaleIsFair'
    BY <1>1 DEF SaleIsFair, Valid, HighestValidBid
<1>2. ASSUME UNCHANGED <<status, purchase, order, claim, moved>>, clock' \in {"BEFORE", "DURING", "AFTER"}, SaleIsFair'
      PROVE  SaleInv'
    BY <1>2
<1>3. ASSUME NEW kind \in {"WINNER", "BUY_NOW"}, NEW buyer, NEW bid, NEW amount, CreateSale(kind, buyer, bid, amount), SaleIsFair',
             status \in OpenStatuses
      PROVE  SaleInv'
  <2>1. claim' = [claim EXCEPT ![Sale] = "HELD"] /\ claim' \in [Orders -> ClaimStates]
      BY <1>0, <1>3, ClaimMoves DEF CreateSale
  <2> QED
      BY <1>0, <1>3, <2>1 DEF CreateSale
<1>4. ASSUME NEW starts \in {"BEFORE", "DURING"}, CreateAuction(starts) PROVE SaleInv'
  <2>1. claim' = [claim EXCEPT ![Sale] = "HELD"] /\ claim' \in [Orders -> ClaimStates] /\ claim[Sale] = "NONE"
      BY <1>0, <1>4, ClaimMoves DEF CreateAuction, ClaimWorkload
  <2>2. SaleIsFair'
      BY <1>1, <1>4 DEF CreateAuction
  <2> QED
      BY <1>0, <1>4, <2>1, <2>2 DEF CreateAuction
<1>5. ASSUME NEW b, BuyNow(b) PROVE SaleInv'
  <2>1. CreateSale("BUY_NOW", b, 0, BuyNowPrice) /\ status \in OpenStatuses /\ bids = <<>>
      BY <1>5 DEF BuyNow, BiddingWindow, BidInv
  <2>2. SaleIsFair'
      BY <2>1 DEF CreateSale, SaleIsFair
  <2> QED
      BY <1>3, <2>1, <2>2
<1>6. ASSUME NEW b, NEW amount, Bid(b, amount) PROVE SaleInv'
  <2>1. purchase' = purchase /\ purchase.kind = "NONE"
      BY <1>6 DEF Bid, BiddingWindow
  <2>2. SaleIsFair'
      BY <2>1 DEF SaleIsFair
  <2> QED
      BY <1>6, <2>2 DEF Bid, BiddingWindow, workloadVars
<1>7. ASSUME NEW i, InvalidateBid(i) PROVE SaleInv'
  <2>1. purchase' = purchase /\ purchase.kind = "NONE"
      BY <1>7 DEF InvalidateBid
  <2>2. SaleIsFair'
      BY <2>1 DEF SaleIsFair
  <2> QED
      BY <1>2, <1>7, <2>2 DEF InvalidateBid, workloadVars
<1>8. ASSUME ReleaseAuctionClaim, status \in OpenStatuses
      PROVE  claim' = [claim EXCEPT ![Sale] = "RELEASED"] /\ claim' \in [Orders -> ClaimStates]
    BY <1>0, <1>8, ClaimMoves DEF ReleaseAuctionClaim
<1>9. CASE CloseAuction
  <2>1. CASE HighestValidBid = 0
      BY <1>0, <1>1, <1>8, <1>9, <2>1 DEF CloseAuction, CreateSale
  <2>2. CASE HighestValidBid # 0
    <3>1. CreateSale("WINNER", bids[HighestValidBid].bidder, HighestValidBid, bids[HighestValidBid].amount) /\ status \in OpenStatuses
        BY <1>9, <2>2 DEF CloseAuction
    <3>2. HighestValidBid \in Valid
        BY <2>2, BelowHighest DEF BidInv
    <3>3. UNCHANGED bids
        BY <3>1 DEF CreateSale
    <3>4. SaleIsFair'
        BY <3>1, <3>2, <3>3 DEF CreateSale, SaleIsFair, Valid, HighestValidBid
    <3> QED
        BY <1>3, <3>1, <3>4
  <2> QED
      BY <2>1, <2>2
<1>10. CASE CancelAuction
    BY <1>0, <1>1, <1>8, <1>10 DEF CancelAuction
<1>11. CASE StartScheduled
    BY <1>1, <1>11 DEF StartScheduled, workloadVars
<1>12. CASE Tick
    BY <1>1, <1>2, <1>12 DEF Tick, workloadVars
<1>13. ASSUME NEW o \in Orders, o # Sale, Book(o) PROVE SaleInv'
  <2>1. claim' = [claim EXCEPT ![o] = "HELD"] /\ claim' \in [Orders -> ClaimStates]
      BY <1>13, ClaimMoves DEF Book, ClaimWorkload
  <2>2. SaleIsFair'
      BY <1>1, <1>13 DEF Book, auctionRow
  <2> QED
      BY <1>0, <1>13, <2>1, <2>2 DEF Book, auctionRow
<1>14. ASSUME NEW o \in Orders, HoldReconciling(o) PROVE SaleInv'
  <2>1. claim' = [claim EXCEPT ![o] = "EXPIRY_RECONCILING"] /\ claim' \in [Orders -> ClaimStates]
      BY <1>14, ClaimMoves DEF HoldReconciling
  <2>2. SaleIsFair'
      BY <1>1, <1>14 DEF HoldReconciling, auctionRow
  <2> QED
      BY <1>0, <1>14, <2>1, <2>2 DEF HoldReconciling, auctionRow, ClaimOf
<1>15. ASSUME NEW o \in Orders, NEW sold, NEW s \in IntentStatuses, SyncSale(o, sold, s)
       PROVE  SaleIsFair' /\ purchase'.kind = purchase.kind
    BY <1>15 DEF SyncSale, SaleIsFair, Valid, HighestValidBid
<1>16. ASSUME NEW o \in Orders, Fund(o) PROVE SaleInv'
  <2>1. claim' = [claim EXCEPT ![o] = "ACTIVE"] /\ claim' \in [Orders -> ClaimStates]
      BY <1>16, ClaimMoves DEF Fund
  <2>2. SaleIsFair' /\ purchase'.kind = purchase.kind
      BY <1>15, <1>16 DEF Fund
  <2> QED
      BY <1>0, <1>16, <2>1, <2>2 DEF Fund, SyncSale, ClaimOf
<1>17. ASSUME NEW o \in Orders, CancelUnpaid(o) PROVE SaleInv'
  <2>1. claim' = (IF ClaimOf(o) \in {"HELD", "EXPIRY_RECONCILING", "ACTIVE"} THEN [claim EXCEPT ![o] = "RELEASED"] ELSE claim)
        /\ claim' \in [Orders -> ClaimStates]
      BY <1>17, ClaimMoves DEF CancelUnpaid, ReleaseOrderClaim
  <2>2. SaleIsFair' /\ purchase'.kind = purchase.kind
      BY <1>15, <1>17 DEF CancelUnpaid
  <2> QED
      BY <1>0, <1>17, <2>1, <2>2 DEF CancelUnpaid, SyncSale, ClaimOf
<1>18. ASSUME NEW o \in Orders, NEW new \in {"DONE", "CANCELLED"}, FinishWork(o, new) PROVE SaleInv'
  <2>1. claim' \in [Orders -> ClaimStates] /\ \A p \in Orders \ {o} : claim'[p] = claim[p]
      BY <1>18, ClaimMoves DEF FinishWork, ReleaseOrderClaim
  <2>2. ClaimOf(o) = "ACTIVE" => claim'[o] \in {"DONE", "RELEASED"}
      BY <1>18, ClaimMoves DEF FinishWork, ReleaseOrderClaim
  <2>3. SaleIsFair'
      BY <1>1, <1>18 DEF FinishWork, auctionRow
  <2> QED
      BY <1>0, <1>18, <2>1, <2>2, <2>3 DEF FinishWork, auctionRow, ClaimOf
<1>19. CASE SetAcceptingOrders \/ UNCHANGED auctionVars
    BY <1>1, <1>2, <1>19 DEF SetAcceptingOrders, auctionVars, auctionRow, workloadVars
<1> QED
    BY <1>4, <1>5, <1>6, <1>7, <1>9, <1>10, <1>11, <1>12, <1>13, <1>14, <1>16, <1>17, <1>18, <1>19 DEF AuctionNext, Auction, OrderStep

\* The transition the trigger app.auction_guard allows, for every step from a state of the invariant.
LEMMA GuardStep ==
    ASSUME Flags, BidInv, SaleInv, [AuctionNext]_auctionVars
    PROVE  \/ status' = status \/ status' \in AuctionTransitions[status]
           \/ status = "SCHEDULED" /\ purchase'.kind = "BUY_NOW" /\ status' \in AuctionTransitions["LIVE"]
<1> DEFINE Guard == \/ status' = status \/ status' \in AuctionTransitions[status]
                    \/ status = "SCHEDULED" /\ purchase'.kind = "BUY_NOW" /\ status' \in AuctionTransitions["LIVE"]
<1> USE DEF AuctionTransitions, OpenStatuses
<1>1. ASSUME NEW starts, CreateAuction(starts) PROVE Guard
    BY <1>1 DEF CreateAuction
<1>2. ASSUME NEW b, BuyNow(b) PROVE Guard
    BY <1>2 DEF BuyNow, BiddingWindow, CreateSale
<1>3. ASSUME NEW b, NEW amount, Bid(b, amount) PROVE Guard
    BY <1>3 DEF Bid, BiddingWindow
<1>4. ASSUME NEW i, InvalidateBid(i) PROVE Guard
    BY <1>4 DEF InvalidateBid
<1>5. CASE CloseAuction
  <2>1. status = "SCHEDULED" => HighestValidBid = 0
    <3>1. bids = <<>> => Valid = {}
        BY DEF Valid
    <3> QED
        BY <3>1, BelowHighest DEF BidInv
  <2> QED
      BY <1>5, <2>1 DEF CloseAuction, CreateSale
<1>6. CASE CancelAuction
    BY <1>6 DEF CancelAuction
<1>7. CASE StartScheduled \/ Tick
    BY <1>7 DEF StartScheduled, Tick
<1>8. CASE OrderStep
    BY <1>8 DEF OrderStep, Book, Fund, CancelUnpaid, HoldReconciling, FinishWork, SyncSale, auctionRow
<1>9. CASE SetAcceptingOrders \/ UNCHANGED auctionVars
    BY <1>9 DEF SetAcceptingOrders, auctionVars, auctionRow
<1> QED
    BY <1>1, <1>2, <1>3, <1>4, <1>5, <1>6, <1>7, <1>8, <1>9 DEF AuctionNext, Auction

-----------------------------------------------------------------------------
(* Theorems *)

\* Every reachable state of the auction, its bids, its sale and the workload satisfies the inductive invariant.
THEOREM Invariance == AuctionSpec => []IInv
<1>1. IInv /\ [AuctionNext]_auctionVars => IInv'
    BY FlagsStep, BidStep, SaleStep, CounterStep, Zenon DEF IInv, SaleInv
<1> QED
    BY InitInv, <1>1, PTL DEF AuctionSpec

\* The workload counters never drift from the claims (app.workload_counter_drift finds nothing), for any number of
\* orders of any size.
THEOREM CountersNeverDrift == AuctionSpec => []CountersMatchClaims
<1>1. IInv => CountersMatchClaims
    BY DEF IInv
<1> QED
    BY Invariance, <1>1, PTL

\* Columns keep their domains and the counters never go below zero (the CHECKs of drizzle/0012).
THEOREM TypeCorrect == AuctionSpec => []TypeOK
<1>1. IInv => TypeOK
  <2> SUFFICES ASSUME IInv PROVE TypeOK
      OBVIOUS
  <2>1. Flags /\ Types
      BY DEF IInv, SaleInv
  <2>2. ASSUME NEW S PROVE Cardinality(CountedUnits(claim, S)) \in Nat
    <3>1. IsFiniteSet(CountedUnits(claim, S))
        BY UnitsFinite, FS_Subset DEF CountedUnits
    <3> QED
        BY <3>1, FS_CardinalityType
  <2>3. held \in Nat /\ active \in Nat
      BY <2>2 DEF IInv, CountersMatchClaims
  <2> QED
      BY <2>1, <2>3, Zenon DEF TypeOK, Flags, Types
<1> QED
    BY Invariance, <1>1, PTL

\* The auction, its sale's order and its claim tell one story, whatever commands, jobs and payments interleave.
THEOREM SalesFollowOrders == AuctionSpec => []SaleFollowsOrder
<1>1. IInv => SaleFollowsOrder
    BY DEF IInv, SaleInv
<1> QED
    BY Invariance, <1>1, PTL

\* The cached leader is the highest valid bid after any bids and invalidations.
THEOREM LeadersAreHighest == AuctionSpec => []LeaderIsHighest
<1>1. IInv => LeaderIsHighest
    BY DEF IInv, BidInv
<1> QED
    BY Invariance, <1>1, PTL

\* An auction sells to its highest valid bid, or by Buy Now only if nobody ever bid.
THEOREM SalesAreFair == AuctionSpec => []SaleIsFair
<1>1. IInv => SaleIsFair
    BY DEF IInv, SaleInv
<1> QED
    BY Invariance, <1>1, PTL

\* Both together: the leader shown is the highest valid bid, and it is who the auction sells to.
THEOREM AlwaysSoldToHighest == AuctionSpec => []SoldToHighest
<1>1. IInv => SoldToHighest
    BY DEF IInv, BidInv, SaleInv, SoldToHighest
<1> QED
    BY Invariance, <1>1, PTL

\* No command or job of the auction ever trips app.auction_guard.
THEOREM GuardNeverTrips == AuctionSpec => GuardRespected
<1>1. IInv /\ [AuctionNext]_auctionVars =>
        [status' = status \/ status' \in AuctionTransitions[status]
          \/ (status = "SCHEDULED" /\ purchase'.kind = "BUY_NOW" /\ status' \in AuctionTransitions["LIVE"])]_auctionVars
    BY GuardStep, Zenon DEF IInv
<1> QED
    BY Invariance, <1>1, PTL DEF AuctionSpec, GuardRespected
=============================================================================
