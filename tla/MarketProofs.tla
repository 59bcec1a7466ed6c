---------------------------- MODULE MarketProofs ----------------------------
(***************************************************************************)
(* Proofs about the market around an order, for any number of buyers,      *)
(* versions, cost facts, bidders and views: what a digital licence         *)
(* promises, that a booking is for the terms the buyer saw, who bears a    *)
(* provider cost that changes late, that the money held for an item sale   *)
(* ends where the outcome says, that a performance hold is split as the    *)
(* post was judged, and that a walk through a list shows each row once.    *)
(***************************************************************************)
EXTENDS Digital, Listings, LateCosts, ItemAuctions, Performance, Discovery, TotalsTheorems, TLAPS

-----------------------------------------------------------------------------
(* Digital products *)

DigitalSpec == DigitalInit /\ [][DigitalNext]_digitalVars

DigitalOrders == {"NONE", "AWAITING_PAYMENT", "DELIVERED", "REVISION_REQUESTED", "DISPUTED", "COMPLETED", "CANCELLED", "REFUNDED"}
LicenceStates == LiveStates \cup {"NONE", "RELEASED", "REVOKED"}
LicenceRows == [state : LicenceStates, terms : Products \cup {NoTerms}, release : Nat, count : Nat, got : SUBSET Nat]

DigitalTypes == /\ product \in Products /\ order \in [Buyers -> DigitalOrders] /\ licence \in [Buyers -> LicenceRows]
                /\ takenBack \subseteq Buyers /\ \E n \in Nat : DOMAIN releases = 1..n

\* A licence follows its order, and what it gave away is counted and covered.
LicenceFits(status, l) ==
    /\ status = "NONE" => l.state = "NONE"
    /\ status = "AWAITING_PAYMENT" => l.state \in {"HELD", "EXPIRY_RECONCILING"}
    /\ status \in {"DELIVERED", "REVISION_REQUESTED", "DISPUTED", "COMPLETED"} => l.state = "ACTIVE"
    /\ status \in {"CANCELLED", "REFUNDED"} => l.state \in {"RELEASED", "REVOKED"}
    /\ l.count = 0 => l.got = {}
    /\ l.terms.updates = "PURCHASED_VERSION" => l.got \subseteq 1 .. l.release

ExclusiveAlone == \A a, b \in Buyers : /\ licence[a].state \in LiveStates /\ licence[b].state \in LiveStates
                                       /\ licence[a].terms.license = "EXCLUSIVE"
                                       => a = b

DigitalInv == /\ DigitalTypes /\ ExclusiveAlone
              /\ \A b \in Buyers : LicenceFits(order[b], licence[b])
              /\ \A b \in takenBack : order[b] = "CANCELLED" /\ licence[b].got = {}

LEMMA DigitalInitHolds == DigitalInit => DigitalInv
<1> SUFFICES ASSUME DigitalInit PROVE DigitalInv
    OBVIOUS
<1>1. NoLicence \in LicenceRows /\ NoLicence.state = "NONE" /\ NoLicence.got = {}
    BY DEF NoLicence, LicenceRows, LicenceStates, LiveStates
<1>2. DOMAIN releases = 1..0
    BY DEF DigitalInit
<1>3. DigitalTypes
    BY <1>1, <1>2 DEF DigitalInit, DigitalTypes, DigitalOrders
<1>4. LicenceFits("NONE", NoLicence)
    BY <1>1 DEF LicenceFits
<1> QED
    BY <1>1, <1>3, <1>4 DEF DigitalInit, DigitalInv, ExclusiveAlone, LiveStates

\* One buyer's order and licence move on; the licence keeps its terms and comes to life only by being sold.
LEMMA LicenceMoves ==
    ASSUME DigitalInv, NEW b \in Buyers, NEW status \in DigitalOrders, NEW l \in LicenceRows,
           order' = [order EXCEPT ![b] = status], licence' = [licence EXCEPT ![b] = l], UNCHANGED <<product, releases>>,
           LicenceFits(status, l), l.terms = licence[b].terms, l.state \in LiveStates => licence[b].state \in LiveStates,
           takenBack' \in {takenBack, takenBack \cup {b}}, b \in takenBack' => status = "CANCELLED" /\ l.got = {}
    PROVE  DigitalInv'
<1>1. \A a \in Buyers : order'[a] = (IF a = b THEN status ELSE order[a]) /\ licence'[a] = IF a = b THEN l ELSE licence[a]
    BY DEF DigitalInv, DigitalTypes
<1>2. DigitalTypes'
    BY DEF DigitalInv, DigitalTypes
<1>3. ExclusiveAlone'
    BY <1>1 DEF DigitalInv, ExclusiveAlone
<1>4. \A a \in Buyers : LicenceFits(order'[a], licence'[a])
    BY <1>1 DEF DigitalInv
<1>5. \A a \in takenBack' : order'[a] = "CANCELLED" /\ licence'[a].got = {}
    BY <1>1 DEF DigitalInv, DigitalTypes
<1> QED
    BY <1>2, <1>3, <1>4, <1>5 DEF DigitalInv

\* order_entitlement_sync on a licence that fits its order.
LEMMA SyncedFits ==
    ASSUME NEW l \in LicenceRows, NEW old \in DigitalOrders, LicenceFits(old, l), NEW status,
           \/ old = "AWAITING_PAYMENT" /\ status \in {"FUNDED", "CANCELLED"}
           \/ <<old, status>> \in OrderMove
    PROVE  /\ Synced(l, status) \in LicenceRows /\ Synced(l, status).terms = l.terms /\ Synced(l, status).got = l.got
           /\ Synced(l, status).state \in LiveStates => l.state \in LiveStates
           /\ status # "FUNDED" => LicenceFits(status, Synced(l, status))
           /\ status = "FUNDED" => Synced(l, status).state = "ACTIVE" /\ LicenceFits("DELIVERED", Synced(l, status))
<1> DEFINE m(s) == [l EXCEPT !.state = s]
<1>1. ASSUME NEW s \in LicenceStates
      PROVE  /\ m(s) \in LicenceRows /\ m(s).terms = l.terms /\ m(s).got = l.got /\ m(s).count = l.count
             /\ m(s).release = l.release /\ m(s).state = s
    BY DEF LicenceRows
<1>2. CASE old = "AWAITING_PAYMENT"
  <2>1. l.state \in {"HELD", "EXPIRY_RECONCILING"} /\ l.state \in LiveStates
      BY <1>2 DEF LicenceFits, LiveStates
  <2>2. CASE status = "FUNDED"
    <3>1. Synced(l, status) = m("ACTIVE")
        BY <2>1, <2>2 DEF Synced
    <3>2. LicenceFits("DELIVERED", m("ACTIVE"))
        BY <1>1 DEF LicenceFits, LicenceStates, LiveStates
    <3>3. "ACTIVE" \in LicenceStates
        BY DEF LicenceStates, LiveStates
    <3> QED
        BY <1>1, <2>1, <2>2, <3>1, <3>2, <3>3
  <2>3. CASE status = "CANCELLED"
    <3>1. Synced(l, status) = m("RELEASED")
        BY <2>1, <2>3 DEF Synced
    <3>2. LicenceFits("CANCELLED", m("RELEASED"))
        BY <1>1 DEF LicenceFits, LicenceStates, LiveStates
    <3>3. "RELEASED" \in LicenceStates
        BY DEF LicenceStates, LiveStates
    <3> QED
        BY <1>1, <2>1, <2>3, <3>1, <3>2, <3>3
  <2> QED
      BY <1>2, <2>2, <2>3 DEF OrderMove
<1>3. CASE old # "AWAITING_PAYMENT"
  <2>1. l.state = "ACTIVE" /\ status \in {"DELIVERED", "REVISION_REQUESTED", "DISPUTED", "COMPLETED", "CANCELLED", "REFUNDED"}
      BY <1>3 DEF LicenceFits, OrderMove
  <2>2. CASE status \in {"CANCELLED", "REFUNDED"}
    <3>1. Synced(l, status) = m("REVOKED")
        BY <2>1, <2>2 DEF Synced
    <3>2. LicenceFits(status, m("REVOKED"))
        BY <1>1, <2>2 DEF LicenceFits, LicenceStates, LiveStates
    <3> QED
        BY <1>1, <2>1, <2>2, <3>1, <3>2 DEF LicenceStates, LiveStates
  <2>3. CASE status \notin {"CANCELLED", "REFUNDED"}
    <3>1. Synced(l, status) = l
        BY <2>1, <2>3 DEF Synced
    <3>2. LicenceFits(status, l)
        BY <2>1, <2>3 DEF LicenceFits
    <3> QED
        BY <2>1, <2>3, <3>1, <3>2
  <2> QED
      BY <2>2, <2>3
<1> QED
    BY <1>2, <1>3

LEMMA BuyKeeps ==
    ASSUME DigitalInv, NEW b \in Buyers, BuyDigital(b)
    PROVE  DigitalInv'
<1> DEFINE l == [state |-> "HELD", terms |-> product, release |-> LatestRelease, count |-> 0, got |-> {}]
<1>1. LatestRelease \in Nat
  <2>1. PICK n \in Nat : DOMAIN releases = 1..n
      BY DEF DigitalInv, DigitalTypes
  <2>2. LatestRelease = n
      BY <2>1, FS_Interval DEF LatestRelease, Versions
  <2> QED
      BY <2>2
<1>2. l \in LicenceRows /\ l.state \in LiveStates /\ LicenceFits("AWAITING_PAYMENT", l)
    BY <1>1 DEF LicenceRows, LicenceStates, LiveStates, LicenceFits, DigitalInv, DigitalTypes
<1>3. /\ order[b] = "NONE" /\ Admits(product) /\ order' = [order EXCEPT ![b] = "AWAITING_PAYMENT"]
      /\ licence' = [licence EXCEPT ![b] = l] /\ UNCHANGED <<product, releases, takenBack>> /\ l.terms = product
    BY DEF BuyDigital
<1> HIDE DEF l
<1>4. \A a \in Buyers : /\ order'[a] = IF a = b THEN "AWAITING_PAYMENT" ELSE order[a]
                        /\ licence'[a] = IF a = b THEN l ELSE licence[a]
    BY <1>3 DEF DigitalInv, DigitalTypes
<1>5. DigitalTypes'
    BY <1>2, <1>3 DEF DigitalInv, DigitalTypes, DigitalOrders
<1>6. licence[b].state \notin LiveStates
    BY <1>3 DEF DigitalInv, LicenceFits, LiveStates
<1>7. ExclusiveAlone'
  <2>1. \A a \in Buyers : licence[a].state \in LiveStates => licence[a].terms.license # "EXCLUSIVE"
      BY <1>3 DEF Admits, LiveLicences
  <2>2. product.license = "EXCLUSIVE" => \A a \in Buyers : licence[a].state \notin LiveStates
      BY <1>3 DEF Admits, LiveLicences
  <2> QED
      BY <1>3, <1>4, <2>1, <2>2 DEF ExclusiveAlone
<1>8. \A a \in Buyers : LicenceFits(order'[a], licence'[a])
    BY <1>2, <1>4 DEF DigitalInv
<1>9. \A a \in takenBack' : order'[a] = "CANCELLED" /\ licence'[a].got = {}
    BY <1>3, <1>4 DEF DigitalInv, DigitalTypes
<1> QED
    BY <1>5, <1>7, <1>8, <1>9 DEF DigitalInv

LEMMA DownloadKeeps ==
    ASSUME DigitalInv, NEW b \in Buyers, NEW v \in 1 .. MaxVersions, Download(b, v)
    PROVE  DigitalInv'
<1> DEFINE old == licence[b]
           l == [[old EXCEPT !.count = @ + 1] EXCEPT !.got = @ \cup {v}]
<1>1. old \in LicenceRows /\ old.state = "ACTIVE" /\ LicenceFits(order[b], old)
    BY DEF DigitalInv, DigitalTypes, Download
<1>2. /\ l \in LicenceRows /\ l.state = "ACTIVE" /\ l.terms = old.terms /\ l.release = old.release
      /\ l.count = old.count + 1 /\ l.got = old.got \cup {v}
  <2> DEFINE k == [old EXCEPT !.count = @ + 1]
  <2>1. k \in LicenceRows /\ k.state = old.state /\ k.terms = old.terms /\ k.release = old.release
        /\ k.count = old.count + 1 /\ k.got = old.got
      BY <1>1 DEF LicenceRows
  <2>2. v \in Nat
      BY DigitalAssumption
  <2> HIDE DEF k
  <2>3. [k EXCEPT !.got = @ \cup {v}] \in LicenceRows /\ [k EXCEPT !.got = @ \cup {v}].state = k.state
        /\ [k EXCEPT !.got = @ \cup {v}].terms = k.terms /\ [k EXCEPT !.got = @ \cup {v}].release = k.release
        /\ [k EXCEPT !.got = @ \cup {v}].count = k.count /\ [k EXCEPT !.got = @ \cup {v}].got = k.got \cup {v}
      BY <2>1, <2>2 DEF LicenceRows
  <2> QED
      BY <1>1, <2>1, <2>3 DEF k
<1>3. licence' = [licence EXCEPT ![b] = l] /\ UNCHANGED <<product, releases, order, takenBack>> /\ v \in Downloadable(old)
    BY DEF Download, DigitalInv, DigitalTypes
<1> HIDE DEF l
<1>4. order[b] \in DigitalOrders /\ order[b] # "CANCELLED" /\ order' = [order EXCEPT ![b] = order[b]]
    BY <1>1, <1>3 DEF DigitalInv, DigitalTypes, LicenceFits
<1>5. l.count # 0
    BY <1>1, <1>2 DEF LicenceRows
<1>6. l.terms.updates = "PURCHASED_VERSION" => l.got \subseteq 1 .. l.release
  <2>1. old.terms.updates = "PURCHASED_VERSION" => v <= old.release
      BY <1>3 DEF Downloadable
  <2>2. old.terms.updates = "PURCHASED_VERSION" => old.got \subseteq 1 .. old.release
      BY <1>1 DEF LicenceFits
  <2>3. old.release \in Nat
      BY <1>1 DEF LicenceRows
  <2> HIDE DEF old
  <2>4. old.terms.updates = "PURCHASED_VERSION" => v \in 1 .. old.release
      BY <2>1, <2>3, DigitalAssumption
  <2> QED
      BY <1>2, <2>2, <2>4
<1>7. LicenceFits(order[b], l)
    BY <1>1, <1>2, <1>5, <1>6 DEF LicenceFits
<1>8. b \notin takenBack
    BY <1>4 DEF DigitalInv
<1> QED
    BY <1>1, <1>2, <1>3, <1>4, <1>7, <1>8, LicenceMoves

LEMMA DigitalNextKeeps == DigitalInv /\ [DigitalNext]_digitalVars => DigitalInv'
<1> SUFFICES ASSUME DigitalInv, [DigitalNext]_digitalVars PROVE DigitalInv'
    OBVIOUS
<1>0. \A b \in Buyers : /\ licence[b] \in LicenceRows /\ order[b] \in DigitalOrders /\ LicenceFits(order[b], licence[b])
                        /\ b \in takenBack => order[b] = "CANCELLED" /\ licence[b].got = {}
    BY DEF DigitalInv, DigitalTypes
<1>1. ASSUME product' \in Products, \E n \in Nat : DOMAIN releases' = 1..n, UNCHANGED <<order, licence, takenBack>>
      PROVE  DigitalInv'
    BY <1>1 DEF DigitalInv, DigitalTypes, ExclusiveAlone
<1>2. CASE AddRelease
  <2>1. PICK n \in Nat : DOMAIN releases = 1..n
      BY DEF DigitalInv, DigitalTypes
  <2>2. LatestRelease = n
      BY <2>1, FS_Interval DEF LatestRelease, Versions
  <2>3. DOMAIN releases' = 1 .. n + 1 /\ n + 1 \in Nat
      BY <1>2, <2>2 DEF AddRelease
  <2> QED
      BY <1>1, <1>2, <2>3 DEF AddRelease, DigitalInv, DigitalTypes
<1>3. ASSUME NEW v \in 1 .. MaxVersions, QuarantineRelease(v) PROVE DigitalInv'
  <2>1. DOMAIN releases' = DOMAIN releases
      BY <1>3 DEF QuarantineRelease
  <2> QED
      BY <1>1, <1>3, <2>1 DEF QuarantineRelease, DigitalInv, DigitalTypes
<1>4. ASSUME NEW p \in Products, UpdateProduct(p) PROVE DigitalInv'
    BY <1>1, <1>4 DEF UpdateProduct, DigitalInv, DigitalTypes
<1>5. ASSUME NEW b \in Buyers, NEW status, SetStatus(b, status), takenBack' \in {takenBack, takenBack \cup {b}},
             b \in takenBack' => status = "CANCELLED" /\ licence[b].got = {},
             (order[b] = "AWAITING_PAYMENT" /\ status = "CANCELLED") \/ <<order[b], status>> \in OrderMove
      PROVE  DigitalInv'
  <2> DEFINE l == Synced(licence[b], status)
  <2>1. order' = [order EXCEPT ![b] = status] /\ licence' = [licence EXCEPT ![b] = l] /\ UNCHANGED <<product, releases>>
      BY <1>5 DEF SetStatus
  <2>2. status \in DigitalOrders /\ status # "FUNDED"
      BY <1>5 DEF OrderMove, DigitalOrders
  <2>3. /\ l \in LicenceRows /\ l.terms = licence[b].terms /\ l.got = licence[b].got
        /\ l.state \in LiveStates => licence[b].state \in LiveStates
        /\ LicenceFits(status, l)
      BY <1>0, <1>5, <2>2, SyncedFits
  <2> HIDE DEF l
  <2> QED
      BY <1>5, <2>1, <2>2, <2>3, LicenceMoves
<1>6. ASSUME NEW b \in Buyers, FundDigital(b) PROVE DigitalInv'
  <2> DEFINE l == Synced(licence[b], "FUNDED")
  <2>1. /\ l \in LicenceRows /\ l.terms = licence[b].terms /\ l.got = licence[b].got
        /\ l.state \in LiveStates => licence[b].state \in LiveStates
        /\ l.state = "ACTIVE" /\ LicenceFits("DELIVERED", l)
    <3>1. order[b] = "AWAITING_PAYMENT" /\ licence[b] \in LicenceRows /\ order[b] \in DigitalOrders
          /\ LicenceFits(order[b], licence[b])
        BY <1>0, <1>6 DEF FundDigital
    <3> QED
        BY <3>1, SyncedFits
  <2>2. /\ order[b] = "AWAITING_PAYMENT" /\ order' = [order EXCEPT ![b] = "DELIVERED"] /\ licence' = [licence EXCEPT ![b] = l]
        /\ UNCHANGED <<product, releases, takenBack>>
      BY <1>6, <2>1 DEF FundDigital
  <2> HIDE DEF l
  <2>3. "DELIVERED" \in DigitalOrders /\ b \notin takenBack
      BY <1>0, <2>2 DEF DigitalOrders
  <2> QED
      BY <2>1, <2>2, <2>3, LicenceMoves
<1>7. ASSUME NEW b \in Buyers, HoldReconciles(b) PROVE DigitalInv'
  <2> DEFINE l == [licence[b] EXCEPT !.state = "EXPIRY_RECONCILING"]
  <2>1. /\ l \in LicenceRows /\ l.terms = licence[b].terms /\ l.got = licence[b].got /\ l.count = licence[b].count
        /\ l.release = licence[b].release /\ l.state = "EXPIRY_RECONCILING"
      BY <1>0 DEF LicenceRows, LicenceStates, LiveStates
  <2>2. /\ order[b] = "AWAITING_PAYMENT" /\ licence[b].state = "HELD" /\ licence' = [licence EXCEPT ![b] = l]
        /\ UNCHANGED <<product, releases, order, takenBack>>
      BY <1>7 DEF HoldReconciles, DigitalInv, DigitalTypes
  <2> HIDE DEF l
  <2>3. order' = [order EXCEPT ![b] = "AWAITING_PAYMENT"] /\ b \notin takenBack /\ "AWAITING_PAYMENT" \in DigitalOrders
      BY <1>0, <2>2 DEF DigitalOrders, DigitalInv, DigitalTypes
  <2>4. LicenceFits("AWAITING_PAYMENT", l)
      BY <1>0, <2>1 DEF LicenceFits
  <2>5. licence[b].state \in LiveStates
      BY <2>2 DEF LiveStates
  <2> QED
      BY <2>1, <2>2, <2>3, <2>4, <2>5, LicenceMoves
<1>8. ASSUME NEW b \in Buyers, HoldExpires(b) PROVE DigitalInv'
  <2>1. b \notin takenBack
      BY <1>0, <1>8 DEF HoldExpires
  <2> QED
      BY <1>5, <1>8, <2>1 DEF HoldExpires
<1>9. ASSUME NEW b \in Buyers, RefundDigital(b) PROVE DigitalInv'
  <2>1. licence[b].got = {} /\ <<order[b], "CANCELLED">> \in OrderMove
      BY <1>0, <1>9 DEF RefundDigital, LicenceFits, OrderMove
  <2> QED
      BY <1>5, <1>9, <2>1 DEF RefundDigital
<1>10. ASSUME NEW b \in Buyers, DigitalOrderMoves(b) PROVE DigitalInv'
  <2>1. PICK status : <<order[b], status>> \in OrderMove /\ SetStatus(b, status) /\ UNCHANGED takenBack
    <3>1. PICK n \in OrderMove : n[1] = order[b] /\ SetStatus(b, n[2]) /\ UNCHANGED takenBack
        BY <1>10 DEF DigitalOrderMoves
    <3>2. n = <<n[1], n[2]>>
        BY DEF OrderMove
    <3> QED
        BY <3>1, <3>2
  <2>2. b \notin takenBack
    <3>1. order[b] # "CANCELLED"
        BY <2>1 DEF OrderMove
    <3> QED
        BY <1>0, <3>1
  <2> QED
      BY <1>5, <2>1, <2>2
<1>11. CASE UNCHANGED digitalVars
    BY <1>1, <1>11 DEF digitalVars, DigitalInv, DigitalTypes
<1> QED
    BY <1>2, <1>3, <1>4, <1>6, <1>7, <1>8, <1>9, <1>10, <1>11, BuyKeeps, DownloadKeeps DEF DigitalNext

\* holdEntitlement and its trigger, refundDigitalPurchase and createEntitlementDownload: for any product, buyers and
\* releases, what a licence promises survives every later change of the product and of the other sales.
THEOREM LicencesAreHonoured == DigitalSpec => []LicenceHonoured
<1>1. DigitalInit => DigitalInv
    BY DigitalInitHolds
<1>2. DigitalInv /\ [DigitalNext]_digitalVars => DigitalInv'
    BY DigitalNextKeeps
<1>3. DigitalInv => LicenceHonoured
  <2> SUFFICES ASSUME DigitalInv PROVE LicenceHonoured
      OBVIOUS
  <2>1. \A b \in LiveLicences : licence[b].terms.license = "EXCLUSIVE" => LiveLicences = {b}
      BY DEF DigitalInv, ExclusiveAlone, LiveLicences
  <2>2. \A b \in Buyers : b \in LiveLicences <=> order[b] \notin {"NONE", "CANCELLED", "REFUNDED"}
      BY DEF DigitalInv, DigitalTypes, LicenceFits, LiveLicences, LiveStates, DigitalOrders
  <2> QED
      BY <2>1, <2>2 DEF LicenceHonoured, DigitalInv, LicenceFits
<1> QED
    BY <1>1, <1>2, <1>3, PTL DEF DigitalSpec

-----------------------------------------------------------------------------
(* Listings *)

ListingSpec == ListingInit /\ [][ListingNext]_listingVars

ServiceRows == [status : {"DRAFT", "PUBLISHED", "PAUSED", "ARCHIVED"}, version : Nat, terms : ServiceTerms, channel : BOOLEAN, published : Nat]
VersionRows == [terms : ServiceTerms, channel : BOOLEAN]

\* The published version is the newest one, and a live listing's newest version is what its row says.
CatalogueInv(s, vs) ==
    /\ s \in ServiceRows /\ vs \in Seq(VersionRows) /\ s.published = Len(vs)
    /\ s.status \in {"PUBLISHED", "PAUSED"} => vs # <<>> /\ vs[Len(vs)] = Current(s)

\* Every page and order is for a version there is, and the order keeps it.
BuyersInv(vs) ==
    /\ shown \in [Clients -> 0 .. Len(vs)]
    /\ \A b \in Clients : booked[b].version # 0 => /\ booked[b].version \in 1 .. Len(vs) /\ booked[b].agreed = booked[b].terms
                                                   /\ vs[booked[b].version] = booked[b].terms

ListingInv == CatalogueInv(service, versions) /\ BuyersInv(versions) /\ DOMAIN booked = Clients

LEMMA ListingInitHolds == ListingInit => ListingInv
    BY DEF ListingInit, ListingInv, CatalogueInv, BuyersInv, ServiceRows, VersionRows, Unbooked

\* snapshotVersion: at most one version is added, and the newest is the current one.
LEMMA SnapshotIsCurrent ==
    ASSUME NEW s \in ServiceRows, versions \in Seq(VersionRows)
    PROVE  /\ Snapshot(s) \in Seq(VersionRows) /\ Snapshot(s) # <<>> /\ Snapshot(s)[Len(Snapshot(s))] = Current(s)
           /\ Len(Snapshot(s)) >= Len(versions) /\ \A i \in 1 .. Len(versions) : Snapshot(s)[i] = versions[i]
<1>1. Current(s) \in VersionRows
    BY DEF Current, ServiceRows, VersionRows
<1> HIDE DEF Current
<1>2. CASE versions # <<>> /\ versions[Len(versions)] = Current(s)
    BY <1>2 DEF Snapshot
<1>3. CASE ~(versions # <<>> /\ versions[Len(versions)] = Current(s))
  <2> DEFINE vs == Append(versions, Current(s))
  <2>1. Snapshot(s) = vs
      BY <1>3 DEF Snapshot
  <2>2. vs \in Seq(VersionRows) /\ Len(vs) = Len(versions) + 1 /\ vs[Len(versions) + 1] = Current(s) /\ Len(versions) \in Nat
        /\ \A i \in 1 .. Len(versions) : vs[i] = versions[i]
      BY <1>1
  <2> HIDE DEF vs
  <2>3. vs # <<>>
      BY <2>2
  <2> QED
      BY <2>1, <2>2, <2>3
<1> QED
    BY <1>2, <1>3

\* Versions are only added, so what was shown and sold stays as it was.
LEMMA BuyersStay ==
    ASSUME ListingInv, NEW vs \in Seq(VersionRows), Len(vs) >= Len(versions), \A i \in 1 .. Len(versions) : vs[i] = versions[i]
    PROVE  BuyersInv(vs)
<1>1. Len(versions) \in Nat /\ Len(vs) \in Nat
    BY DEF ListingInv, CatalogueInv
<1>2. 0 .. Len(versions) \subseteq 0 .. Len(vs) /\ 1 .. Len(versions) \subseteq 1 .. Len(vs)
    BY <1>1
<1>3. shown \in [Clients -> 0 .. Len(vs)]
    BY <1>2 DEF ListingInv, BuyersInv
<1> QED
    BY <1>2, <1>3 DEF ListingInv, BuyersInv

\* A saved row: the version counter and the newest version's number are written with it.
LEMMA SaveKeeps ==
    ASSUME ListingInv, NEW s \in ServiceRows, NEW vs \in Seq(VersionRows), versions' = vs, Saves(s),
           Len(vs) >= Len(versions), \A i \in 1 .. Len(versions) : vs[i] = versions[i],
           s.status \in {"PUBLISHED", "PAUSED"} => vs # <<>> /\ vs[Len(vs)] = Current(s)
    PROVE  ListingInv'
<1>1. service.version + 1 \in Nat /\ Len(vs) \in Nat
    BY DEF ListingInv, CatalogueInv, ServiceRows
<1>2. (IF vs = <<>> THEN 0 ELSE Len(vs)) = Len(vs)
    OBVIOUS
<1> DEFINE x == [[s EXCEPT !.version = service.version + 1] EXCEPT !.published = Len(vs)]
<1>3. x \in ServiceRows /\ x.published = Len(vs) /\ x.status = s.status /\ x.terms = s.terms /\ x.channel = s.channel
    BY <1>1 DEF ServiceRows
<1>4. service' = x
    BY <1>2 DEF Saves
<1> HIDE DEF x
<1>5. Current(x) = Current(s)
    BY <1>3 DEF Current
<1>6. CatalogueInv(service', vs)
    BY <1>3, <1>4, <1>5 DEF CatalogueInv
<1>7. BuyersInv(vs)
    BY BuyersStay
<1> QED
    BY <1>6, <1>7 DEF ListingInv, BuyersInv, Saves

LEMMA ListingNextKeeps == ListingInv /\ [ListingNext]_listingVars => ListingInv'
<1> SUFFICES ASSUME ListingInv, [ListingNext]_listingVars PROVE ListingInv'
    OBVIOUS
<1>0. service \in ServiceRows /\ versions \in Seq(VersionRows) /\ Len(versions) \in Nat /\ service.published = Len(versions)
    BY DEF ListingInv, CatalogueInv
<1>1. ASSUME UNCHANGED <<service, versions, shown, booked>> PROVE ListingInv'
    BY <1>1 DEF ListingInv, CatalogueInv, BuyersInv, Current
<1>2. CASE AddSample \/ OpenEditor \/ CheckChannelUnused \/ SetUserStatus \/ SetFlag \/ ReportContent \/ UNCHANGED listingVars
    BY <1>1, <1>2 DEF AddSample, OpenEditor, CheckChannelUnused, SetUserStatus, SetFlag, ReportContent, listingVars
<1>3. ASSUME NEW decision, ModerateSample(decision) PROVE ListingInv'
    BY <1>1, <1>3 DEF ModerateSample
<1>4. CASE PublishService
  <2> DEFINE s == [service EXCEPT !.status = "PUBLISHED"]
  <2>1. s \in ServiceRows /\ Current(s) = Current(service)
      BY <1>0 DEF ServiceRows, Current
  <2>2. versions' = Snapshot(s) /\ Saves(s)
      BY <1>4, <2>1 DEF PublishService, Snapshot
  <2> HIDE DEF s
  <2> QED
      BY <1>0, <2>1, <2>2, SnapshotIsCurrent, SaveKeeps
<1>5. ASSUME NEW t \in ServiceTerms, UpdateService(t) PROVE ListingInv'
  <2> DEFINE s == [service EXCEPT !.terms = t]
  <2>1. s \in ServiceRows
      BY <1>0 DEF ServiceRows
  <2>2. Saves(s) /\ IF SnapshotOnEdit(s) THEN versions' = Snapshot(s) ELSE versions' = versions
      BY <1>5 DEF UpdateService
  <2> HIDE DEF s
  <2>3. CASE SnapshotOnEdit(s)
      BY <1>0, <2>1, <2>2, <2>3, SnapshotIsCurrent, SaveKeeps
  <2>4. CASE ~SnapshotOnEdit(s)
    <3>1. s.status \notin {"PUBLISHED", "PAUSED"}
        BY <2>4 DEF SnapshotOnEdit
    <3> QED
        BY <1>0, <2>1, <2>2, <2>4, <3>1, SaveKeeps
  <2> QED
      BY <2>3, <2>4
<1>6. ASSUME NEW x \in ServiceRows, service' = x, x.published = service.published, UNCHANGED <<versions, shown, booked>>,
             x.status \in {"PUBLISHED", "PAUSED"} => service.status \in {"PUBLISHED", "PAUSED"} /\ Current(x) = Current(service)
      PROVE  ListingInv'
  <2>1. CatalogueInv(service', versions')
      BY <1>0, <1>6 DEF ListingInv, CatalogueInv
  <2> QED
      BY <1>6, <2>1 DEF ListingInv, BuyersInv
<1>7. ASSUME NEW s \in {"PAUSED", "ARCHIVED"}
      PROVE  LET x == [[service EXCEPT !.status = s] EXCEPT !.version = @ + 1]
             IN  x \in ServiceRows /\ x.published = service.published /\ x.status = s /\ Current(x) = Current(service)
  <2> DEFINE y == [service EXCEPT !.status = s]
             x == [y EXCEPT !.version = @ + 1]
  <2>1. y \in ServiceRows /\ y.published = service.published /\ y.status = s /\ y.terms = service.terms /\ y.channel = service.channel
      BY <1>0 DEF ServiceRows
  <2> HIDE DEF y
  <2>2. x \in ServiceRows /\ x.published = y.published /\ x.status = y.status /\ x.terms = y.terms /\ x.channel = y.channel
      BY <2>1 DEF ServiceRows
  <2> HIDE DEF x
  <2>3. x \in ServiceRows /\ x.published = service.published /\ x.status = s /\ Current(x) = Current(service)
      BY <2>1, <2>2 DEF Current
  <2> QED
      BY <2>3 DEF x, y
<1>8. ASSUME NEW status \in {"PAUSED", "ARCHIVED"}, SetListingStatus(status) PROVE ListingInv'
  <2> DEFINE x == [[service EXCEPT !.status = status] EXCEPT !.version = @ + 1]
  <2>1. x \in ServiceRows /\ x.published = service.published /\ x.status = status /\ Current(x) = Current(service)
      BY <1>7
  <2>2. service' = x /\ UNCHANGED <<versions, shown, booked>> /\ (status = "PAUSED" => service.status = "PUBLISHED")
      BY <1>8 DEF SetListingStatus
  <2> HIDE DEF x
  <2> QED
      BY <1>6, <2>1, <2>2
<1>9. CASE RemoveChannel
  <2> DEFINE x == [[service EXCEPT !.channel = FALSE] EXCEPT !.version = @ + 1]
  <2>1. x \in ServiceRows /\ x.published = service.published /\ x.status = service.status
    <3> DEFINE y == [service EXCEPT !.channel = FALSE]
    <3>1. y \in ServiceRows /\ y.published = service.published /\ y.status = service.status
        BY <1>0 DEF ServiceRows
    <3> HIDE DEF y
    <3>2. [y EXCEPT !.version = @ + 1] \in ServiceRows /\ [y EXCEPT !.version = @ + 1].published = y.published
          /\ [y EXCEPT !.version = @ + 1].status = y.status
        BY <3>1 DEF ServiceRows
    <3> QED
        BY <3>1, <3>2 DEF y
  <2>2. (service' = x /\ service.status = "DRAFT") \/ service' = service
      BY <1>9 DEF RemoveChannel
  <2>3. UNCHANGED <<versions, shown, booked>>
      BY <1>9 DEF RemoveChannel
  <2> HIDE DEF x
  <2> QED
      BY <1>0, <1>6, <2>1, <2>2, <2>3
<1>10. ASSUME NEW action, ResolveReport(action) PROVE ListingInv'
  <2> DEFINE x == [[service EXCEPT !.status = "PAUSED"] EXCEPT !.version = @ + 1]
  <2>1. x \in ServiceRows /\ x.published = service.published /\ x.status = "PAUSED" /\ Current(x) = Current(service)
      BY <1>7
  <2>2. (service' = x /\ service.status = "PUBLISHED") \/ service' = service
      BY <1>10 DEF ResolveReport
  <2>3. UNCHANGED <<versions, shown, booked>>
      BY <1>10 DEF ResolveReport
  <2> HIDE DEF x
  <2> QED
      BY <1>0, <1>6, <2>1, <2>2, <2>3
<1>11. ASSUME NEW b \in Clients, OpenListing(b) PROVE ListingInv'
  <2>1. shown' \in [Clients -> 0 .. Len(versions)]
      BY <1>0, <1>11 DEF OpenListing, ListingInv, BuyersInv
  <2> QED
      BY <1>11, <2>1 DEF OpenListing, ListingInv, CatalogueInv, BuyersInv
<1>12. ASSUME NEW b \in Clients, Book(b) PROVE ListingInv'
  <2> DEFINE o == [version |-> service.published, terms |-> versions[service.published], agreed |-> versions[shown[b]]]
  <2>1. shown[b] # 0 /\ shown[b] = service.published /\ booked' = [booked EXCEPT ![b] = o] /\ UNCHANGED <<service, versions, shown>>
      BY <1>12 DEF Book, QuoteStands
  <2>2. o.version \in 1 .. Len(versions) /\ o.agreed = o.terms /\ versions[o.version] = o.terms
      BY <1>0, <2>1
  <2> HIDE DEF o
  <2>3. DOMAIN booked' = Clients /\ \A a \in Clients : booked'[a] = IF a = b THEN o ELSE booked[a]
      BY <2>1 DEF ListingInv
  <2> QED
      BY <2>1, <2>2, <2>3 DEF ListingInv, CatalogueInv, BuyersInv
<1> QED
    BY <1>2, <1>3, <1>4, <1>5, <1>8, <1>9, <1>10, <1>11, <1>12 DEF ListingNext

\* snapshotVersion, updateService, publishService and book: for any terms, edits and buyers, an order is for the terms
\* on the buyer's page, what was sold stays readable as sold, and a live listing shows its current terms.
THEOREM OrdersAreAsSeen == ListingSpec => []SoldAsSeen
<1>1. ListingInit => ListingInv
    BY ListingInitHolds
<1>2. ListingInv /\ [ListingNext]_listingVars => ListingInv'
    BY ListingNextKeeps
<1>3. ListingInv => SoldAsSeen
    BY DEF ListingInv, CatalogueInv, BuyersInv, SoldAsSeen
<1> QED
    BY <1>1, <1>2, <1>3, PTL DEF ListingSpec

-----------------------------------------------------------------------------
(* Provider costs that change late *)

LateCostSpec == LateCostInit /\ [][LateCostNext]_lateCostVars

LEMMA MinOfTwo ==
    ASSUME NEW a \in Int, NEW b \in Int
    PROVE  Min({a, b}) \in {a, b} /\ Min({a, b}) <= a /\ Min({a, b}) <= b
<1>1. \E x \in {a, b} : \A y \in {a, b} : x <= y
    OBVIOUS
<1> QED
    BY <1>1 DEF Min

LEMMA MinOfThree ==
    ASSUME NEW a \in Int, NEW b \in Int, NEW c \in Int
    PROVE  Min({a, b, c}) \in {a, b, c} /\ Min({a, b, c}) <= a /\ Min({a, b, c}) <= b /\ Min({a, b, c}) <= c
<1>1. \E x \in {a, b, c} : \A y \in {a, b, c} : x <= y
    OBVIOUS
<1> QED
    BY <1>1 DEF Min

LEMMA MaxOfTwo ==
    ASSUME NEW a \in Int, NEW b \in Int
    PROVE  Max({a, b}) \in {a, b} /\ Max({a, b}) >= a /\ Max({a, b}) >= b
<1>1. \E x \in {a, b} : \A y \in {a, b} : x >= y
    OBVIOUS
<1> QED
    BY <1>1 DEF Max

LEMMA CapIsNat == CapMinor \in Nat
<1>1. Principal \in Nat /\ CapBps \in Nat
    BY LateCostAssumption
<1>2. Principal * CapBps \in Nat
    BY <1>1
<1> DEFINE p == Principal * CapBps
<1> HIDE DEF p
<1>3. p \in Nat
    BY <1>2 DEF p
<1>4. p \div 10000 \in Nat
    BY <1>3
<1> QED
    BY <1>4 DEF CapMinor, p

Bills == [known : Nat, borne : Nat, late : Nat, platform : Int, credit : Int, seen : SUBSET DOMAIN CostFacts]
PayoutRows == [status : {"FUNDED", "APPROVED", "CANCELLED", "COMPLETED"}, refunded : Nat,
               settlement : {"NOT_READY", "READY", "PENDING", "RELEASED", "FAILED"}, plan : Int, sent : Int, raced : BOOLEAN]

LateCostTypes == feePayer \in {"CREATOR_AT_COST", "PLATFORM_SUBSIDIZED"} /\ bill \in Bills /\ payout \in PayoutRows
                 /\ payout.refunded <= Principal

\* A transfer the provider took is for the net of its time, which no cost has changed since unless it raced the call.
SentInv == /\ payout.status = "FUNDED" => payout.settlement = "NOT_READY" /\ payout.refunded = 0
           /\ payout.settlement = "NOT_READY" => payout.sent = NoPlan
           /\ payout.settlement \in {"PENDING", "RELEASED"} => payout.sent # NoPlan
           /\ payout.sent # NoPlan /\ payout.settlement # "FAILED" /\ ~payout.raced => payout.sent = Net

BillInv == /\ bill.borne + bill.platform = bill.known /\ bill.late <= CapMinor
           /\ payout.refunded = 0 => Principal - bill.borne >= 1

LateCostInv == LateCostTypes /\ SentInv /\ BillInv

LEMMA LateCostInitHolds == LateCostInit => LateCostInv
<1> SUFFICES ASSUME LateCostInit PROVE LateCostInv
    OBVIOUS
<1>1. LateCostTypes
    BY LateCostAssumption DEF LateCostInit, LateCostTypes, Bills, PayoutRows, NoPlan
<1>2. SentInv
    BY DEF LateCostInit, SentInv, NoPlan
<1>3. BillInv
    BY LateCostAssumption, CapIsNat DEF LateCostInit, BillInv
<1> QED
    BY <1>1, <1>2, <1>3 DEF LateCostInv

\* What the creator bears of a change: never below nothing, never above the cap, never the whole amount, and nothing
\* once the payout is sent.
LEMMA SharesBounded ==
    ASSUME LateCostInv, NEW delta \in Int
    PROVE  LET s == LateCostShares(delta) IN
           /\ s.creator \in Int /\ s.credit \in Int /\ bill.borne + s.creator >= 0
           /\ s.creator > 0 => bill.late + s.creator <= CapMinor /\ bill.borne + s.creator <= Gross - 1
           /\ payout.settlement \in {"PENDING", "RELEASED"} => s.creator = 0
<1> DEFINE s == LateCostShares(delta)
           left == CapMinor - bill.late
           room == Gross - bill.borne - 1
<1>1. CapMinor \in Nat /\ bill.late \in Nat /\ bill.borne \in Nat /\ Gross \in Int /\ left \in Int /\ room \in Int
    BY CapIsNat, LateCostAssumption DEF LateCostInv, LateCostTypes, Bills, PayoutRows, Gross
<1>2. CASE feePayer = "PLATFORM_SUBSIDIZED" \/ Phase = "NO_CREATOR_SETTLEMENT"
  <2>1. s = [creator |-> 0, credit |-> 0]
      BY <1>2 DEF LateCostShares
  <2> HIDE DEF s
  <2>2. s.creator = 0 /\ s.credit = 0
      BY <2>1
  <2> QED
      BY <1>1, <2>2 DEF s
<1>3. CASE ~(feePayer = "PLATFORM_SUBSIDIZED" \/ Phase = "NO_CREATOR_SETTLEMENT") /\ Phase = "AFTER_RELEASE"
  <2>1. s = [creator |-> 0, credit |-> IF delta < 0 THEN Min({-delta, bill.borne}) ELSE 0]
      BY <1>3 DEF LateCostShares
  <2>2. Min({-delta, bill.borne}) \in Int
    <3>1. -delta \in Int /\ bill.borne \in Int
        BY <1>1
    <3>2. Min({-delta, bill.borne}) \in {-delta, bill.borne}
        BY <3>1, MinOfTwo, Zenon
    <3> QED
        BY <3>1, <3>2, Zenon
  <2> HIDE DEF s
  <2>3. s.creator = 0 /\ s.credit \in Int
      BY <2>1, <2>2
  <2> QED
      BY <1>1, <2>3 DEF s
<1>4. CASE ~(feePayer = "PLATFORM_SUBSIDIZED" \/ Phase = "NO_CREATOR_SETTLEMENT") /\ Phase # "AFTER_RELEASE"
  <2>1. payout.settlement \notin {"PENDING", "RELEASED"}
      BY <1>4 DEF Phase
  <2>2. CASE delta > 0
    <3> DEFINE c == Min({delta, Max({0, left}), Max({0, room})})
    <3>1. s = [creator |-> c, credit |-> 0]
        BY <1>4, <2>2 DEF LateCostShares
    <3>a. 0 \in Int
        OBVIOUS
    <3> DEFINE cap == Max({0, left})
               most == Max({0, room})
    <3>2. cap \in {0, left} /\ cap >= 0 /\ most \in {0, room} /\ most >= 0
        BY <1>1, <3>a, MaxOfTwo, Zenon
    <3>b. cap \in Int /\ most \in Int
        BY <1>1, <3>a, <3>2, Zenon
    <3>3. c \in {delta, cap, most} /\ c <= cap /\ c <= most
        BY <3>b, MinOfThree, Zenon
    <3> HIDE DEF c, s, cap, most
    <3>4. c \in Int /\ c >= 0 /\ (c > 0 => c <= left /\ c <= room)
        BY <1>1, <2>2, <3>2, <3>3
    <3>5. s.creator = c /\ s.credit = 0
        BY <3>1
    <3> QED
        BY <1>1, <2>1, <3>4, <3>5 DEF s
  <2>3. CASE ~(delta > 0)
    <3> DEFINE c == Min({-delta, bill.borne})
    <3>1. s = [creator |-> -c, credit |-> 0]
        BY <1>4, <2>3 DEF LateCostShares
    <3>a. -delta \in Int /\ bill.borne \in Int
        BY <1>1
    <3>b. c \in {-delta, bill.borne} /\ c <= bill.borne
        BY <3>a, MinOfTwo, Zenon
    <3> HIDE DEF c, s
    <3>2. c \in Int /\ c <= bill.borne /\ c >= 0
        BY <1>1, <2>3, <3>b
    <3>3. s.creator = -c /\ s.credit = 0
        BY <3>1
    <3> QED
        BY <1>1, <2>1, <3>2, <3>3 DEF s
  <2> QED
      BY <2>2, <2>3
<1> QED
    BY <1>2, <1>3, <1>4

\* applyLateProviderCost
LEMMA CostKeeps ==
    ASSUME LateCostInv, NEW e \in DOMAIN CostFacts, ApplyLateProviderCost(e)
    PROVE  LateCostInv'
<1> DEFINE delta == CostFacts[e] - bill.known
           share == LateCostShares(delta)
           late == Max({0, share.creator})
           race == payout.settlement = "READY" /\ payout.sent # NoPlan
<1>1. CostFacts[e] \in Nat /\ bill \in Bills /\ payout \in PayoutRows /\ CapMinor \in Nat /\ Principal \in Nat
    BY LateCostAssumption, CapIsNat DEF LateCostInv, LateCostTypes
<1>2. delta \in Int
    BY <1>1 DEF Bills
<1>3. /\ share.creator \in Int /\ share.credit \in Int /\ bill.borne + share.creator >= 0
      /\ share.creator > 0 => bill.late + share.creator <= CapMinor /\ bill.borne + share.creator <= Gross - 1
      /\ payout.settlement \in {"PENDING", "RELEASED"} => share.creator = 0
    BY <1>2, SharesBounded
<1>4. /\ bill' = [known |-> CostFacts[e], borne |-> bill.borne + share.creator, late |-> bill.late + late,
                  platform |-> bill.platform + delta - share.creator, credit |-> bill.credit + share.credit,
                  seen |-> bill.seen \cup {e}]
      /\ payout' = [payout EXCEPT !.raced = payout.raced \/ race] /\ UNCHANGED feePayer
    BY DEF ApplyLateProviderCost
<1> HIDE DEF share
<1>5. late \in {0, share.creator} /\ late >= 0 /\ late >= share.creator
  <2>1. 0 \in Int
      OBVIOUS
  <2> QED
      BY <1>3, <2>1, MaxOfTwo, Zenon
<1> HIDE DEF late
<1>6. /\ bill'.known = CostFacts[e] /\ bill'.borne = bill.borne + share.creator /\ bill'.late = bill.late + late
      /\ bill'.platform = bill.platform + delta - share.creator
    BY <1>4
<1>7. bill' \in Bills
  <2>1. bill.borne + share.creator \in Nat /\ bill.late + late \in Nat /\ bill.platform + delta - share.creator \in Int
        /\ bill.credit + share.credit \in Int /\ bill.seen \cup {e} \in SUBSET DOMAIN CostFacts
      BY <1>1, <1>2, <1>3, <1>5 DEF Bills
  <2> QED
      BY <1>1, <1>4, <2>1 DEF Bills
<1>8. /\ payout' \in PayoutRows /\ payout'.status = payout.status /\ payout'.refunded = payout.refunded
      /\ payout'.settlement = payout.settlement /\ payout'.sent = payout.sent
      /\ ~payout'.raced => ~payout.raced /\ ~race
  <2>1. ASSUME NEW r \in BOOLEAN
        PROVE  LET p == [payout EXCEPT !.raced = r]
               IN  /\ p \in PayoutRows /\ p.status = payout.status /\ p.refunded = payout.refunded
                   /\ p.settlement = payout.settlement /\ p.sent = payout.sent /\ p.raced = r
      BY <1>1 DEF PayoutRows
  <2>2. (payout.raced \/ race) \in BOOLEAN
      OBVIOUS
  <2> HIDE DEF race
  <2> QED
      BY <1>4, <2>1, <2>2
<1>9. BillInv'
  <2>1. bill'.borne + bill'.platform = bill'.known
      BY <1>1, <1>2, <1>3, <1>6 DEF LateCostInv, BillInv, Bills
  <2>2. bill'.late <= CapMinor
      BY <1>1, <1>3, <1>5, <1>6 DEF LateCostInv, BillInv, Bills
  <2>3. payout'.refunded = 0 => Principal - bill'.borne >= 1
    <3>1. CASE share.creator > 0
      <4>1. payout.refunded = 0 => Gross = Principal
          BY <1>1 DEF Gross
      <4> QED
          BY <1>1, <1>3, <1>6, <1>8, <3>1, <4>1 DEF Bills
    <3>2. CASE ~(share.creator > 0)
        BY <1>1, <1>3, <1>6, <1>8, <3>2 DEF LateCostInv, BillInv, Bills
    <3> QED
        BY <3>1, <3>2
  <2> QED
      BY <2>1, <2>2, <2>3 DEF BillInv, CapMinor
<1>10. SentInv'
  <2>1. ASSUME payout.sent # NoPlan, payout.settlement # "FAILED", ~payout'.raced PROVE payout.sent = Net'
    <3>1. payout.settlement \in {"PENDING", "RELEASED"}
        BY <1>1, <1>8, <2>1 DEF LateCostInv, SentInv, PayoutRows
    <3>2. bill'.borne = bill.borne
        BY <1>1, <1>3, <1>6, <3>1 DEF Bills
    <3>3. Net' = Net
        BY <1>4, <1>8, <3>2 DEF Net, Gross
    <3> QED
        BY <1>8, <2>1, <3>3 DEF LateCostInv, SentInv
  <2> QED
      BY <1>8, <2>1 DEF LateCostInv, SentInv
<1>11. LateCostTypes'
    BY <1>4, <1>7, <1>8 DEF LateCostInv, LateCostTypes
<1> QED
    BY <1>9, <1>10, <1>11 DEF LateCostInv

\* A step of the payout that leaves the bill alone.
LEMMA PayoutMoves ==
    ASSUME LateCostInv, UNCHANGED <<feePayer, bill>>, payout' \in PayoutRows, payout'.refunded <= Principal, SentInv',
           payout'.refunded = 0 => payout.refunded = 0
    PROVE  LateCostInv'
    BY DEF LateCostInv, LateCostTypes, BillInv, CapMinor

LEMMA LateCostNextKeeps == LateCostInv /\ [LateCostNext]_lateCostVars => LateCostInv'
<1> SUFFICES ASSUME LateCostInv, [LateCostNext]_lateCostVars PROVE LateCostInv'
    OBVIOUS
<1>0. payout \in PayoutRows /\ bill \in Bills /\ payout.refunded \in Nat /\ payout.refunded <= Principal /\ Principal \in Nat /\ SentInv
    BY LateCostAssumption DEF LateCostInv, LateCostTypes, PayoutRows
<1>1. CASE ApproveWork
  <2>1. payout' = [[payout EXCEPT !.status = "APPROVED"] EXCEPT !.settlement = "READY"] /\ UNCHANGED <<feePayer, bill>>
        /\ payout.status = "FUNDED"
      BY <1>1 DEF ApproveWork
  <2>2. payout' \in PayoutRows /\ payout'.refunded = payout.refunded /\ payout'.sent = payout.sent
        /\ payout'.status = "APPROVED" /\ payout'.settlement = "READY"
      BY <1>0, <2>1 DEF PayoutRows
  <2>3. SentInv'
      BY <1>0, <2>1, <2>2 DEF SentInv
  <2> QED
      BY <1>0, <2>1, <2>2, <2>3, PayoutMoves
<1>2. ASSUME NEW r \in Refunds, AgreeRefund(r) PROVE LateCostInv'
  <2> DEFINE next == IF r < Principal THEN "READY" ELSE "NOT_READY"
  <2>1. payout' = [[[payout EXCEPT !.status = "CANCELLED"] EXCEPT !.refunded = r] EXCEPT !.settlement = next]
        /\ UNCHANGED <<feePayer, bill>> /\ payout.status = "FUNDED"
      BY <1>2 DEF AgreeRefund
  <2>2. next \in {"READY", "NOT_READY"} /\ r \in Nat /\ r <= Principal
      BY LateCostAssumption
  <2> HIDE DEF next
  <2>3. payout' \in PayoutRows /\ payout'.refunded = r /\ payout'.sent = payout.sent
        /\ payout'.status = "CANCELLED" /\ payout'.settlement = next
      BY <1>0, <2>1, <2>2 DEF PayoutRows
  <2>4. SentInv'
      BY <1>0, <2>1, <2>2, <2>3 DEF SentInv
  <2> QED
      BY <1>0, <2>1, <2>2, <2>3, <2>4, PayoutMoves DEF SentInv
<1>3. ASSUME NEW reply \in {"ok", "late", "lost"}, RequestCreatorRelease(reply) PROVE LateCostInv'
  <2> DEFINE sent == IF reply = "lost" THEN payout.sent ELSE Net
             next == IF reply = "ok" THEN "PENDING" ELSE payout.settlement
  <2>1. payout' = [[[payout EXCEPT !.plan = Net] EXCEPT !.sent = sent] EXCEPT !.settlement = next]
        /\ UNCHANGED <<feePayer, bill>> /\ payout.settlement = "READY" /\ Net > 0
      BY <1>3 DEF RequestCreatorRelease
  <2>2. Net \in Int
      BY <1>0 DEF Net, Gross, Bills
  <2>3. sent \in Int /\ next \in {"READY", "PENDING"} /\ ((sent = payout.sent /\ next = "READY") \/ sent = Net)
      BY <1>0, <2>1, <2>2 DEF PayoutRows
  <2> HIDE DEF sent, next
  <2>4. payout' \in PayoutRows /\ payout'.refunded = payout.refunded /\ payout'.sent = sent
        /\ payout'.status = payout.status /\ payout'.settlement = next /\ payout'.raced = payout.raced
      BY <1>0, <2>1, <2>2, <2>3 DEF PayoutRows
  <2>5. Net' = Net
      BY <2>1, <2>4 DEF Net, Gross
  <2>6. SentInv'
      BY <1>0, <2>1, <2>2, <2>3, <2>4, <2>5 DEF SentInv, NoPlan
  <2> QED
      BY <1>0, <2>1, <2>4, <2>6, PayoutMoves
<1>4. ASSUME NEW fact \in {"SUCCEEDED", "FAILED"}, ApplyRelease(fact) PROVE LateCostInv'
  <2> DEFINE next == IF fact = "SUCCEEDED" THEN "RELEASED" ELSE "FAILED"
             status == IF fact = "SUCCEEDED" /\ payout.status = "APPROVED" THEN "COMPLETED" ELSE payout.status
  <2>1. payout' = [[payout EXCEPT !.settlement = next] EXCEPT !.status = status]
        /\ UNCHANGED <<feePayer, bill>> /\ payout.settlement \in {"READY", "PENDING"} /\ payout.sent # NoPlan
      BY <1>4 DEF ApplyRelease
  <2>2. next \in {"RELEASED", "FAILED"} /\ status \in {"COMPLETED", payout.status}
      OBVIOUS
  <2> HIDE DEF next, status
  <2>3. payout' \in PayoutRows /\ payout'.refunded = payout.refunded /\ payout'.sent = payout.sent
        /\ payout'.status = status /\ payout'.settlement = next /\ payout'.raced = payout.raced
      BY <1>0, <2>1, <2>2 DEF PayoutRows
  <2>4. Net' = Net
      BY <2>1, <2>3 DEF Net, Gross
  <2>5. SentInv'
      BY <1>0, <2>1, <2>2, <2>3, <2>4 DEF SentInv
  <2> QED
      BY <1>0, <2>1, <2>3, <2>5, PayoutMoves
<1>5. CASE UNCHANGED lateCostVars
    BY <1>5 DEF lateCostVars, LateCostInv, LateCostTypes, SentInv, BillInv, Net, Gross, CapMinor
<1> QED
    BY <1>1, <1>2, <1>3, <1>4, <1>5, CostKeeps DEF LateCostNext

\* applyLateProviderCost and the payout worker: for any amount, cap and cost facts, a change of a provider cost is borne
\* exactly once, within the cap, never takes the whole amount, and leaves a payout that was sent as it was.
THEOREM LateCostsAreShared == LateCostSpec => []CostSharesKept
<1>1. LateCostInit => LateCostInv
    BY LateCostInitHolds
<1>2. LateCostInv /\ [LateCostNext]_lateCostVars => LateCostInv'
    BY LateCostNextKeeps
<1>3. LateCostInv => CostSharesKept
    BY DEF LateCostInv, SentInv, BillInv, CostSharesKept
<1> QED
    BY <1>1, <1>2, <1>3, PTL DEF LateCostSpec

-----------------------------------------------------------------------------
(* Item auctions and their escrow *)

ItemSpec == ItemInit /\ [][ItemNext]_itemVars

TransferKeys == {"collateral-lock", "payment-lock", "payment-release", "payment-refund", "collateral-release"}
Transfers == [key : TransferKeys, from : DOMAIN account, to : DOMAIN account, amount : Nat]
In(t, x) == IF t.to = x THEN t.amount ELSE 0
Out(t, x) == IF t.from = x THEN t.amount ELSE 0

LEMMA TransferTyped ==
    ASSUME NEW key \in TransferKeys, NEW from \in DOMAIN account, NEW to \in DOMAIN account, NEW amount \in Nat
    PROVE  Transfer(key, from, to, amount) \in Transfers /\ Transfer(key, from, to, amount).key = key
    BY DEF Transfers, Transfer

LEMMA PostNothing ==
    ASSUME account = [x \in DOMAIN account |-> account[x]], \A x \in DOMAIN account : account[x] \in Int, Post({})
    PROVE  UNCHANGED <<account, itemPosted>>
<1> DEFINE new == {t \in {} : t.key \notin itemPosted}
           sum(ts) == Total([t \in ts |-> t.amount], ts)
<1>1. new = {}
    OBVIOUS
<1>2. \A x : {t \in new : t.to = x} = {} /\ {t \in new : t.from = x} = {}
    BY <1>1
<1>3. sum({}) = 0
    BY TotalEmpty
<1>4. account' = [x \in DOMAIN account |-> account[x] + sum({t \in new : t.to = x}) - sum({t \in new : t.from = x})]
      /\ itemPosted' = itemPosted \cup {t.key : t \in new}
    BY DEF Post
<1> HIDE DEF new, sum
<1>5. account' = [x \in DOMAIN account |-> account[x] + 0 - 0]
    BY <1>2, <1>3, <1>4
<1> QED
    BY <1>1, <1>4, <1>5

LEMMA TransferTotal ==
    ASSUME NEW t, t.amount \in Nat
    PROVE  Total([s \in {t} |-> s.amount], {t}) = t.amount
<1> DEFINE f == [s \in {t} |-> s.amount]
<1>1. f[t] = t.amount
    OBVIOUS
<1> HIDE DEF f
<1>2. Total(f, {t}) = f[t]
    BY <1>1, TotalOne
<1> QED
    BY <1>1, <1>2 DEF f

LEMMA PostOne ==
    ASSUME \A x \in DOMAIN account : account[x] \in Int, NEW t \in Transfers, t.key \notin itemPosted, Post({t})
    PROVE  /\ account' = [x \in DOMAIN account |-> account[x] + In(t, x) - Out(t, x)]
           /\ itemPosted' = itemPosted \cup {t.key}
<1> DEFINE new == {s \in {t} : s.key \notin itemPosted}
           sum(ts) == Total([s \in ts |-> s.amount], ts)
<1>1. new = {t}
    OBVIOUS
<1>2. sum({}) = 0 /\ sum({t}) = t.amount
    BY TotalEmpty, TransferTotal DEF Transfers
<1>3. account' = [x \in DOMAIN account |-> account[x] + sum({s \in new : s.to = x}) - sum({s \in new : s.from = x})]
      /\ itemPosted' = itemPosted \cup {s.key : s \in new}
    BY DEF Post
<1> HIDE DEF new, sum
<1>4. ASSUME NEW x PROVE sum({s \in new : s.to = x}) = In(t, x) /\ sum({s \in new : s.from = x}) = Out(t, x)
  <2>1. {s \in new : s.to = x} = IF t.to = x THEN {t} ELSE {}
      BY <1>1
  <2>2. {s \in new : s.from = x} = IF t.from = x THEN {t} ELSE {}
      BY <1>1
  <2> QED
      BY <1>2, <2>1, <2>2 DEF In, Out
<1> QED
    BY <1>1, <1>3, <1>4

LEMMA PostTwo ==
    ASSUME \A x \in DOMAIN account : account[x] \in Int, NEW t \in Transfers, NEW u \in Transfers, t.key # u.key,
           t.key \notin itemPosted, u.key \notin itemPosted, Post({t, u})
    PROVE  /\ account' = [x \in DOMAIN account |-> account[x] + (In(t, x) + In(u, x)) - (Out(t, x) + Out(u, x))]
           /\ itemPosted' = itemPosted \cup {t.key, u.key}
<1> DEFINE new == {s \in {t, u} : s.key \notin itemPosted}
           sum(ts) == Total([s \in ts |-> s.amount], ts)
<1>1. new = {t, u} /\ t # u
    OBVIOUS
<1>2. sum({}) = 0 /\ sum({t}) = t.amount /\ sum({u}) = u.amount /\ t.amount \in Nat /\ u.amount \in Nat
    BY TotalEmpty, TransferTotal DEF Transfers
<1>3. sum({t, u}) = t.amount + u.amount
  <2> DEFINE f == [s \in {t, u} |-> s.amount]
  <2>1. f[t] = t.amount /\ f[u] = u.amount /\ IsFiniteSet({t}) /\ {t} \cup {u} = {t, u}
    <3>1. f[t] = t.amount /\ f[u] = u.amount
        OBVIOUS
    <3>2. {t} \cup {u} = {t, u}
        OBVIOUS
    <3> QED
        BY <3>1, <3>2, FS_Singleton, Zenon
  <2> HIDE DEF f
  <2>2. Amounts(f, {t})
      BY <1>2, <2>1 DEF Amounts
  <2>3. Total(f, {t} \cup {u}) = Total(f, {t}) + f[u]
      BY <1>1, <1>2, <2>1, <2>2, TotalAdd
  <2>4. Total(f, {t}) = f[t]
      BY <1>2, <2>1, TotalOne
  <2> QED
      BY <2>1, <2>3, <2>4 DEF f
<1>4. account' = [x \in DOMAIN account |-> account[x] + sum({s \in new : s.to = x}) - sum({s \in new : s.from = x})]
      /\ itemPosted' = itemPosted \cup {s.key : s \in new}
    BY DEF Post
<1> HIDE DEF new, sum
<1>5. ASSUME NEW x PROVE sum({s \in new : s.to = x}) = In(t, x) + In(u, x)
  <2>1. {s \in new : s.to = x} = IF t.to = x THEN (IF u.to = x THEN {t, u} ELSE {t}) ELSE IF u.to = x THEN {u} ELSE {}
      BY <1>1
  <2> DEFINE moved == {s \in new : s.to = x}
  <2> HIDE DEF moved
  <2>2. moved = IF t.to = x THEN (IF u.to = x THEN {t, u} ELSE {t}) ELSE IF u.to = x THEN {u} ELSE {}
      BY <2>1 DEF moved
  <2>3. ASSUME t.to = x /\ u.to = x PROVE sum(moved) = In(t, x) + In(u, x)
    <3>1. moved = {t, u}
        BY <2>2, <2>3
    <3> QED
        BY <1>2, <1>3, <2>3, <3>1 DEF In
  <2>4. ASSUME t.to = x /\ u.to # x PROVE sum(moved) = In(t, x) + In(u, x)
    <3>1. moved = {t}
        BY <2>2, <2>4
    <3> QED
        BY <1>2, <2>4, <3>1 DEF In
  <2>5. ASSUME t.to # x /\ u.to = x PROVE sum(moved) = In(t, x) + In(u, x)
    <3>1. moved = {u}
        BY <2>2, <2>5
    <3> QED
        BY <1>2, <2>5, <3>1 DEF In
  <2>6. ASSUME t.to # x /\ u.to # x PROVE sum(moved) = In(t, x) + In(u, x)
    <3>1. moved = {}
        BY <2>2, <2>6
    <3> QED
        BY <1>2, <2>6, <3>1 DEF In
  <2> QED
      BY <2>3, <2>4, <2>5, <2>6 DEF moved
<1>6. ASSUME NEW x PROVE sum({s \in new : s.from = x}) = Out(t, x) + Out(u, x)
  <2>1. {s \in new : s.from = x} = IF t.from = x THEN (IF u.from = x THEN {t, u} ELSE {t}) ELSE IF u.from = x THEN {u} ELSE {}
      BY <1>1
  <2> DEFINE moved == {s \in new : s.from = x}
  <2> HIDE DEF moved
  <2>2. moved = IF t.from = x THEN (IF u.from = x THEN {t, u} ELSE {t}) ELSE IF u.from = x THEN {u} ELSE {}
      BY <2>1 DEF moved
  <2>3. ASSUME t.from = x /\ u.from = x PROVE sum(moved) = Out(t, x) + Out(u, x)
    <3>1. moved = {t, u}
        BY <2>2, <2>3
    <3> QED
        BY <1>2, <1>3, <2>3, <3>1 DEF Out
  <2>4. ASSUME t.from = x /\ u.from # x PROVE sum(moved) = Out(t, x) + Out(u, x)
    <3>1. moved = {t}
        BY <2>2, <2>4
    <3> QED
        BY <1>2, <2>4, <3>1 DEF Out
  <2>5. ASSUME t.from # x /\ u.from = x PROVE sum(moved) = Out(t, x) + Out(u, x)
    <3>1. moved = {u}
        BY <2>2, <2>5
    <3> QED
        BY <1>2, <2>5, <3>1 DEF Out
  <2>6. ASSUME t.from # x /\ u.from # x PROVE sum(moved) = Out(t, x) + Out(u, x)
    <3>1. moved = {}
        BY <2>2, <2>6
    <3> QED
        BY <1>2, <2>6, <3>1 DEF Out
  <2> QED
      BY <2>3, <2>4, <2>5, <2>6 DEF moved
<1> QED
    BY <1>1, <1>4, <1>5, <1>6

Parties == Bidders \cup {"seller", "collateral", "escrow"}
ListingRows == [status : {"AWAITING_COLLATERAL", "OPEN", "CANCELLED", "NO_BIDS", "SOLD"}, posted : BOOLEAN, bid : Nat,
                bidder : Bidders \cup {"none"}, bids : Nat]
SaleRows == [status : SaleOpen \cup {"NONE", "COMPLETED", "SELLER_DEFAULTED", "REFUNDED", "PAYMENT_EXPIRED"},
             buyer : Bidders \cup {"none"}, price : Nat, kind : {"NONE", "BUY_NOW", "WINNER"},
             resolution : {"NONE", "OPEN", "RELEASE_TO_SELLER", "REFUND_WITH_COLLATERAL", "REFUND"}]

\* The collateral is locked; the payment is held.
Locked(l, s) == l.status = "OPEN" \/ s.status \in SaleOpen
Held(s) == s.status \in SaleHolds

\* What the ledger says of each party, read off the listing and the sale.
Balance(l, s, x) ==
    IF x = "collateral" THEN (IF Locked(l, s) THEN Collateral ELSE 0)
    ELSE IF x = "escrow" THEN (IF Held(s) THEN s.price ELSE 0)
    ELSE IF x = "seller"
    THEN (IF Locked(l, s) \/ s.status = "SELLER_DEFAULTED" THEN 0 - Collateral ELSE IF s.status = "COMPLETED" THEN s.price ELSE 0)
    ELSE IF x = s.buyer
    THEN (IF Held(s) \/ s.status = "COMPLETED" THEN 0 - s.price ELSE IF s.status = "SELLER_DEFAULTED" THEN Collateral ELSE 0)
    ELSE 0

\* Nothing that is still to be posted has been posted.
KeysFit(l, s, keys) ==
    /\ l.status = "AWAITING_COLLATERAL" => keys = {}
    /\ Locked(l, s) /\ ~Held(s) => keys = {"collateral-lock"}
    /\ Held(s) => keys = {"collateral-lock", "payment-lock"}

SaleFits(l, s) ==
    /\ s.status # "NONE" => l.status = "SOLD" /\ s.buyer \in Bidders
    /\ l.status = "AWAITING_COLLATERAL" => ~l.posted
    /\ l.status = "OPEN" => l.posted
    /\ l.bids > 0 => l.bidder \in Bidders
    /\ s.resolution = "OPEN" => s.status = "DISPUTED"

ItemInv == /\ listing \in ListingRows /\ itemSale \in SaleRows
           /\ SaleFits(listing, itemSale) /\ KeysFit(listing, itemSale, itemPosted)
           /\ account = [x \in Parties |-> Balance(listing, itemSale, x)]

LEMMA BalanceInt ==
    ASSUME NEW l \in ListingRows, NEW s \in SaleRows, NEW x
    PROVE  Balance(l, s, x) \in Int
    BY ItemAssumption DEF Balance, SaleRows

LEMMA AccountsInt ==
    ASSUME ItemInv
    PROVE  DOMAIN account = Parties /\ account = [x \in DOMAIN account |-> account[x]] /\ \A x \in DOMAIN account : account[x] \in Int
    BY BalanceInt DEF ItemInv

LEMMA ItemInitHolds == ItemInit => ItemInv
<1> SUFFICES ASSUME ItemInit PROVE ItemInv
    OBVIOUS
<1>1. listing \in ListingRows /\ itemSale \in SaleRows
    BY DEF ItemInit, ListingRows, SaleRows, NoSale, NoPrice
<1>2. SaleFits(listing, itemSale) /\ KeysFit(listing, itemSale, itemPosted) /\ ~Locked(listing, itemSale) /\ ~Held(itemSale)
    BY DEF ItemInit, SaleFits, KeysFit, NoSale, Locked, Held, SaleOpen, SaleHolds
<1>3. \A x \in Parties : Balance(listing, itemSale, x) = 0
    BY <1>2 DEF Balance, ItemInit, NoSale
<1> QED
    BY <1>1, <1>2, <1>3 DEF ItemInv, ItemInit, Parties

\* A step that posts nothing.
LEMMA NothingPosted ==
    ASSUME ItemInv, NEW l \in ListingRows, NEW s \in SaleRows, listing' = l, itemSale' = s, UNCHANGED <<account, itemPosted>>,
           SaleFits(l, s), l.status = "AWAITING_COLLATERAL" => listing.status = "AWAITING_COLLATERAL",
           Locked(l, s) <=> Locked(listing, itemSale), Held(s) <=> Held(itemSale),
           s.status \in {"COMPLETED", "SELLER_DEFAULTED"} <=> itemSale.status \in {"COMPLETED", "SELLER_DEFAULTED"},
           itemSale.status # "NONE" =>
                s.price = itemSale.price /\ s.buyer = itemSale.buyer /\ (s.status = "COMPLETED" <=> itemSale.status = "COMPLETED")
    PROVE  ItemInv'
<1>1. KeysFit(l, s, itemPosted)
    BY DEF ItemInv, KeysFit
<1>2. ASSUME NEW x \in Parties PROVE Balance(l, s, x) = Balance(listing, itemSale, x)
    BY DEF Balance, Held, SaleHolds
<1> QED
    BY <1>1, <1>2 DEF ItemInv

\* A step that posts one transfer.
LEMMA OnePosted ==
    ASSUME ItemInv, NEW l \in ListingRows, NEW s \in SaleRows, listing' = l, itemSale' = s, SaleFits(l, s),
           NEW t \in Transfers, t.key \notin itemPosted, Post({t}), KeysFit(l, s, itemPosted \cup {t.key}),
           \A x \in Parties : Balance(l, s, x) = Balance(listing, itemSale, x) + In(t, x) - Out(t, x)
    PROVE  ItemInv'
<1>1. account' = [x \in Parties |-> account[x] + In(t, x) - Out(t, x)] /\ itemPosted' = itemPosted \cup {t.key}
    BY AccountsInt, PostOne
<1>2. \A x \in Parties : account[x] = Balance(listing, itemSale, x)
    BY DEF ItemInv
<1> QED
    BY <1>1, <1>2 DEF ItemInv

LEMMA TwoPosted ==
    ASSUME ItemInv, NEW l \in ListingRows, NEW s \in SaleRows, listing' = l, itemSale' = s, SaleFits(l, s),
           NEW t \in Transfers, NEW u \in Transfers, t.key # u.key, t.key \notin itemPosted, u.key \notin itemPosted, Post({t, u}),
           KeysFit(l, s, itemPosted \cup {t.key, u.key}),
           \A x \in Parties : Balance(l, s, x) = Balance(listing, itemSale, x) + (In(t, x) + In(u, x)) - (Out(t, x) + Out(u, x))
    PROVE  ItemInv'
<1>1. /\ account' = [x \in Parties |-> account[x] + (In(t, x) + In(u, x)) - (Out(t, x) + Out(u, x))]
      /\ itemPosted' = itemPosted \cup {t.key, u.key}
    BY AccountsInt, PostTwo
<1>2. \A x \in Parties : account[x] = Balance(listing, itemSale, x)
    BY DEF ItemInv
<1> QED
    BY <1>1, <1>2 DEF ItemInv

\* However a paid sale ends, its payment and the collateral go to whom the outcome names.
LEMMA SaleEnds ==
    ASSUME ItemInv, Held(itemSale), NEW s \in SaleRows, UNCHANGED listing, itemSale' = s, s.resolution # "OPEN",
           s.buyer = itemSale.buyer, s.price = itemSale.price,
           \/ s.status = "COMPLETED" /\ Post({PaySeller, ReleaseCollateral("seller")})
           \/ s.status = "SELLER_DEFAULTED" /\ Post({RefundPayment, ReleaseCollateral(itemSale.buyer)})
           \/ s.status = "REFUNDED" /\ Post({RefundPayment, ReleaseCollateral("seller")})
    PROVE  ItemInv'
<1>1. /\ itemSale \in SaleRows /\ itemSale.price \in Nat /\ itemSale.buyer \in Bidders /\ listing \in ListingRows /\ Collateral \in Nat
      /\ listing.status = "SOLD" /\ itemPosted = {"collateral-lock", "payment-lock"} /\ Locked(listing, itemSale)
      /\ itemSale.status \notin {"COMPLETED", "SELLER_DEFAULTED"}
    BY ItemAssumption DEF ItemInv, SaleRows, SaleFits, KeysFit, Held, SaleHolds, Locked, SaleOpen
<1>2. itemSale.buyer \notin {"seller", "collateral", "escrow"}
    BY <1>1, ItemAssumption
<1>3. SaleFits(listing, s) /\ ~Held(s) /\ ~Locked(listing, s)
    BY <1>1 DEF ItemInv, SaleFits, Held, Locked, SaleHolds, SaleOpen
<1>4. \A keys : KeysFit(listing, s, keys)
    BY <1>1, <1>3 DEF KeysFit
<1>5. /\ PaySeller \in Transfers /\ RefundPayment \in Transfers
      /\ ReleaseCollateral("seller") \in Transfers /\ ReleaseCollateral(itemSale.buyer) \in Transfers
  <2>1. {"seller", "collateral", "escrow", itemSale.buyer} \subseteq DOMAIN account
      BY <1>1, AccountsInt DEF Parties
  <2> QED
      BY <1>1, <2>1, TransferTyped DEF TransferKeys, PaySeller, RefundPayment, ReleaseCollateral
<1>6. /\ PaySeller.key = "payment-release" /\ RefundPayment.key = "payment-refund"
      /\ ReleaseCollateral("seller").key = "collateral-release" /\ ReleaseCollateral(itemSale.buyer).key = "collateral-release"
    BY DEF PaySeller, RefundPayment, ReleaseCollateral, Transfer
<1>7. CASE s.status = "COMPLETED" /\ Post({PaySeller, ReleaseCollateral("seller")})
  <2>1. ASSUME NEW x \in Parties
        PROVE  Balance(listing, s, x) = Balance(listing, itemSale, x)
                    + (In(PaySeller, x) + In(ReleaseCollateral("seller"), x)) - (Out(PaySeller, x) + Out(ReleaseCollateral("seller"), x))
      BY <1>1, <1>2, <1>3, <1>7 DEF Balance, In, Out, PaySeller, ReleaseCollateral, Transfer
  <2> QED
      BY <1>1, <1>3, <1>4, <1>5, <1>6, <1>7, <2>1, TwoPosted
<1>8. CASE s.status = "SELLER_DEFAULTED" /\ Post({RefundPayment, ReleaseCollateral(itemSale.buyer)})
  <2>1. ASSUME NEW x \in Parties
        PROVE  Balance(listing, s, x) = Balance(listing, itemSale, x)
                    + (In(RefundPayment, x) + In(ReleaseCollateral(itemSale.buyer), x))
                    - (Out(RefundPayment, x) + Out(ReleaseCollateral(itemSale.buyer), x))
      BY <1>1, <1>2, <1>3, <1>8 DEF Balance, In, Out, RefundPayment, ReleaseCollateral, Transfer
  <2> QED
      BY <1>1, <1>3, <1>4, <1>5, <1>6, <1>8, <2>1, TwoPosted
<1>9. CASE s.status = "REFUNDED" /\ Post({RefundPayment, ReleaseCollateral("seller")})
  <2>1. ASSUME NEW x \in Parties
        PROVE  Balance(listing, s, x) = Balance(listing, itemSale, x)
                    + (In(RefundPayment, x) + In(ReleaseCollateral("seller"), x)) - (Out(RefundPayment, x) + Out(ReleaseCollateral("seller"), x))
      BY <1>1, <1>2, <1>3, <1>9 DEF Balance, In, Out, RefundPayment, ReleaseCollateral, Transfer
  <2> QED
      BY <1>1, <1>3, <1>4, <1>5, <1>6, <1>9, <2>1, TwoPosted
<1> QED
    BY <1>7, <1>8, <1>9

LEMMA ItemNextKeeps == ItemInv /\ [ItemNext]_itemVars => ItemInv'
<1> SUFFICES ASSUME ItemInv, [ItemNext]_itemVars PROVE ItemInv'
    OBVIOUS
<1>0. /\ listing \in ListingRows /\ itemSale \in SaleRows /\ SaleFits(listing, itemSale) /\ KeysFit(listing, itemSale, itemPosted)
      /\ Collateral \in Nat /\ {"seller", "collateral", "escrow"} \subseteq DOMAIN account
    BY AccountsInt, ItemAssumption DEF ItemInv, Parties
<1>a. ASSUME NEW status \in {"AWAITING_COLLATERAL", "OPEN", "CANCELLED", "NO_BIDS", "SOLD"}
      PROVE  LET l == [listing EXCEPT !.status = status] IN
             l \in ListingRows /\ l.status = status /\ l.posted = listing.posted /\ l.bids = listing.bids /\ l.bidder = listing.bidder
    BY <1>0 DEF ListingRows
<1>b. listing.status # "SOLD" => itemSale.status = "NONE"
    BY <1>0 DEF SaleFits
<1>c. ASSUME UNCHANGED <<listing, itemSale, account, itemPosted>> PROVE ItemInv'
    BY <1>c DEF ItemInv
<1>d. ASSUME NEW status \in {"CANCELLED", "NO_BIDS"}, listing.status = "OPEN", UNCHANGED itemSale,
             listing' = [listing EXCEPT !.status = status], Post({ReleaseCollateral("seller")})
      PROVE  ItemInv'
  <2> DEFINE l == [listing EXCEPT !.status = status]
             t == ReleaseCollateral("seller")
  <2>1. l \in ListingRows /\ l.status = status /\ l.posted = listing.posted /\ l.bids = listing.bids /\ l.bidder = listing.bidder
      BY <1>a
  <2>2. t \in Transfers /\ t.key = "collateral-release"
      BY <1>0, TransferTyped DEF ReleaseCollateral, TransferKeys
  <2>3. itemSale.status = "NONE" /\ Locked(listing, itemSale) /\ ~Held(itemSale) /\ itemPosted = {"collateral-lock"}
      BY <1>0, <1>b, <1>d DEF Locked, Held, SaleHolds, KeysFit
  <2>4. listing' = l
      BY <1>d
  <2> HIDE DEF l
  <2>5. ~Locked(l, itemSale) /\ SaleFits(l, itemSale)
      BY <1>0, <1>d, <2>1, <2>3 DEF Locked, SaleOpen, SaleFits
  <2>6. \A x \in Parties : Balance(l, itemSale, x) = Balance(listing, itemSale, x) + In(t, x) - Out(t, x)
      BY <1>0, <2>3, <2>5 DEF Balance, In, Out, ReleaseCollateral, Transfer
  <2>7. KeysFit(l, itemSale, itemPosted \cup {t.key})
      BY <1>d, <2>1, <2>3, <2>5 DEF KeysFit
  <2>8. Post({t}) /\ t.key \notin itemPosted /\ itemSale' = itemSale
      BY <1>d, <2>2, <2>3
  <2> HIDE DEF t
  <2> QED
      BY <1>0, <2>1, <2>2, <2>4, <2>5, <2>6, <2>7, <2>8, OnePosted
<1>1. CASE PostCollateral
  <2> DEFINE k == [listing EXCEPT !.status = "OPEN"]
             l == [k EXCEPT !.posted = TRUE]
             t == Transfer("collateral-lock", "seller", "collateral", Collateral)
  <2>1. k \in ListingRows /\ k.status = "OPEN" /\ k.bids = listing.bids /\ k.bidder = listing.bidder
      BY <1>a
  <2>2. listing' = l /\ UNCHANGED itemSale /\ listing.status = "AWAITING_COLLATERAL" /\ Post({t})
      BY <1>1 DEF PostCollateral
  <2> HIDE DEF k
  <2>3. l \in ListingRows /\ l.status = k.status /\ l.posted = TRUE /\ l.bids = k.bids /\ l.bidder = k.bidder
      BY <2>1 DEF ListingRows
  <2> HIDE DEF l
  <2>4. t \in Transfers /\ t.key = "collateral-lock"
      BY <1>0, TransferTyped DEF TransferKeys
  <2>5. itemSale.status = "NONE" /\ ~Locked(listing, itemSale) /\ ~Held(itemSale) /\ itemPosted = {}
      BY <1>0, <1>b, <2>2 DEF Locked, Held, SaleHolds, SaleOpen, KeysFit
  <2>6. Locked(l, itemSale) /\ SaleFits(l, itemSale)
      BY <1>0, <2>1, <2>3, <2>5 DEF Locked, SaleFits
  <2>7. \A x \in Parties : Balance(l, itemSale, x) = Balance(listing, itemSale, x) + In(t, x) - Out(t, x)
      BY <1>0, <2>5, <2>6 DEF Balance, In, Out, Transfer
  <2>8. KeysFit(l, itemSale, itemPosted \cup {t.key})
      BY <2>1, <2>3, <2>4, <2>5 DEF KeysFit
  <2>9. t.key \notin itemPosted
      BY <2>5
  <2> HIDE DEF t
  <2> QED
      BY <1>0, <2>2, <2>3, <2>4, <2>6, <2>7, <2>8, <2>9, OnePosted
<1>2. ASSUME NEW status \in {"CANCELLED", "NO_BIDS"}, listing.status = "AWAITING_COLLATERAL",
             listing' = [listing EXCEPT !.status = status], UNCHANGED <<itemSale, account, itemPosted>>
      PROVE  ItemInv'
  <2> DEFINE l == [listing EXCEPT !.status = status]
  <2>1. l \in ListingRows /\ l.status = status /\ l.posted = listing.posted /\ l.bids = listing.bids /\ l.bidder = listing.bidder
      BY <1>a
  <2>2. itemSale.status = "NONE"
      BY <1>b, <1>2
  <2>3. listing' = l
      BY <1>2
  <2> HIDE DEF l
  <2>4. SaleFits(l, itemSale) /\ (Locked(l, itemSale) <=> Locked(listing, itemSale))
      BY <1>0, <1>2, <2>1, <2>2 DEF SaleFits, Locked
  <2> QED
      BY <1>0, <1>2, <2>1, <2>3, <2>4, NothingPosted
<1>3. CASE CancelListing
  <2>1. CASE listing.status = "OPEN"
    <3>1. Post({ReleaseCollateral("seller")})
        BY <1>0, <1>3, <2>1 DEF CancelListing, SaleFits
    <3> QED
        BY <1>3, <1>d, <2>1, <3>1 DEF CancelListing
  <2>2. CASE listing.status = "AWAITING_COLLATERAL"
    <3>1. Post({})
        BY <1>0, <1>3, <2>2 DEF CancelListing, SaleFits
    <3>2. UNCHANGED <<account, itemPosted>>
        BY <3>1, AccountsInt, PostNothing
    <3> QED
        BY <1>2, <1>3, <2>2, <3>2 DEF CancelListing
  <2> QED
      BY <1>3, <2>1, <2>2 DEF CancelListing
<1>4. ASSUME NEW b \in Bidders, NEW amount \in Starting..MaxBid, BidItem(b, amount) PROVE ItemInv'
  <2>1. amount \in Nat
      BY ItemAssumption
  <2> DEFINE l == [[[listing EXCEPT !.bid = amount] EXCEPT !.bidder = b] EXCEPT !.bids = @ + 1]
  <2>2. l \in ListingRows /\ l.status = listing.status /\ l.posted = listing.posted /\ l.bidder = b
    <3> DEFINE i == [listing EXCEPT !.bid = amount]
               j == [i EXCEPT !.bidder = b]
    <3>1. i \in ListingRows /\ i.status = listing.status /\ i.posted = listing.posted
        BY <1>0, <2>1 DEF ListingRows
    <3> HIDE DEF i
    <3>2. j \in ListingRows /\ j.status = i.status /\ j.posted = i.posted /\ j.bidder = b
        BY <3>1 DEF ListingRows
    <3> HIDE DEF j
    <3>3. [j EXCEPT !.bids = @ + 1] \in ListingRows /\ [j EXCEPT !.bids = @ + 1].status = j.status
          /\ [j EXCEPT !.bids = @ + 1].posted = j.posted /\ [j EXCEPT !.bids = @ + 1].bidder = j.bidder
        BY <3>2 DEF ListingRows
    <3> QED
        BY <3>1, <3>2, <3>3 DEF i, j
  <2>3. listing' = l /\ UNCHANGED <<itemSale, account, itemPosted>>
      BY <1>4 DEF BidItem
  <2> HIDE DEF l
  <2>4. SaleFits(l, itemSale) /\ (Locked(l, itemSale) <=> Locked(listing, itemSale))
      BY <1>0, <2>2 DEF SaleFits, Locked
  <2> QED
      BY <1>0, <2>2, <2>3, <2>4, NothingPosted
<1>5. ASSUME NEW b \in Bidders, NEW kind \in {"BUY_NOW", "WINNER"}, NEW price \in Nat, listing.status = "OPEN", CreateSale(b, kind, price),
             UNCHANGED <<account, itemPosted>>
      PROVE  ItemInv'
  <2> DEFINE l == [listing EXCEPT !.status = "SOLD"]
             s == [status |-> "AWAITING_PAYMENT", buyer |-> b, price |-> price, kind |-> kind, resolution |-> "NONE"]
  <2>1. l \in ListingRows /\ l.status = "SOLD" /\ l.posted = listing.posted /\ l.bids = listing.bids /\ l.bidder = listing.bidder
      BY <1>a
  <2>2. s \in SaleRows /\ s.status = "AWAITING_PAYMENT" /\ s.buyer = b /\ s.resolution = "NONE"
      BY DEF SaleRows, SaleOpen
  <2>3. listing' = l /\ itemSale' = s /\ itemSale.status = "NONE"
      BY <1>5, <1>b DEF CreateSale
  <2> HIDE DEF l, s
  <2>4. /\ SaleFits(l, s) /\ Locked(l, s) /\ Locked(listing, itemSale) /\ ~Held(s) /\ ~Held(itemSale)
        /\ s.status \notin {"COMPLETED", "SELLER_DEFAULTED"} /\ itemSale.status \notin {"COMPLETED", "SELLER_DEFAULTED"}
      BY <1>0, <1>5, <2>1, <2>2, <2>3 DEF SaleFits, Locked, SaleOpen, Held, SaleHolds
  <2> QED
      BY <1>5, <2>1, <2>2, <2>3, <2>4, NothingPosted
<1>6. ASSUME NEW b \in Bidders, BuyItemNow(b) PROVE ItemInv'
  <2>1. BuyNow \in Nat
      BY ItemAssumption
  <2> QED
      BY <1>5, <1>6, <2>1 DEF BuyItemNow, AssertLive
<1>7. CASE CloseListing
  <2>1. CASE listing.status = "AWAITING_COLLATERAL"
      BY <1>2, <1>7, <2>1 DEF CloseListing
  <2>2. CASE listing.status = "OPEN" /\ listing.bids = 0
      BY <1>7, <1>d, <2>2 DEF CloseListing
  <2>3. CASE listing.status = "OPEN" /\ listing.bids > 0
    <3>1. CreateSale(listing.bidder, "WINNER", listing.bid) /\ UNCHANGED <<account, itemPosted>>
        BY <1>7, <2>3 DEF CloseListing
    <3>2. listing.bidder \in Bidders /\ listing.bid \in Nat
        BY <1>0, <2>3 DEF SaleFits, ListingRows
    <3> QED
        BY <1>5, <2>3, <3>1, <3>2
  <2> QED
      BY <1>7, <2>1, <2>2, <2>3 DEF CloseListing
<1>e. ASSUME NEW status \in SaleOpen \cup {"COMPLETED", "SELLER_DEFAULTED", "REFUNDED", "PAYMENT_EXPIRED"}
      PROVE  LET s == [itemSale EXCEPT !.status = status] IN
             s \in SaleRows /\ s.status = status /\ s.buyer = itemSale.buyer /\ s.price = itemSale.price /\ s.resolution = itemSale.resolution
    BY <1>0 DEF SaleRows
<1>8. CASE PaySale
  <2> DEFINE s == [itemSale EXCEPT !.status = "AWAITING_DELIVERY"]
             t == Transfer("payment-lock", itemSale.buyer, "escrow", itemSale.price)
  <2>1. s \in SaleRows /\ s.status = "AWAITING_DELIVERY" /\ s.buyer = itemSale.buyer /\ s.price = itemSale.price
        /\ s.resolution = itemSale.resolution
      BY <1>e DEF SaleOpen
  <2>2. itemSale.status = "AWAITING_PAYMENT" /\ itemSale' = s /\ UNCHANGED listing /\ Post({t})
      BY <1>8 DEF PaySale, SaleMoves
  <2> HIDE DEF s
  <2>3. itemSale.buyer \in Bidders /\ itemSale.price \in Nat /\ listing.status = "SOLD" /\ itemSale.resolution # "OPEN"
        /\ Locked(listing, itemSale) /\ ~Held(itemSale) /\ itemPosted = {"collateral-lock"}
      BY <1>0, <2>2 DEF SaleFits, SaleRows, Locked, SaleOpen, Held, SaleHolds, KeysFit
  <2>4. t \in Transfers /\ t.key = "payment-lock"
    <3>1. itemSale.buyer \in DOMAIN account
        BY <2>3, AccountsInt DEF Parties
    <3> QED
        BY <1>0, <2>3, <3>1, TransferTyped DEF TransferKeys
  <2>5. Locked(listing, s) /\ Held(s) /\ SaleFits(listing, s)
      BY <1>0, <2>1, <2>3 DEF SaleFits, Locked, Held, SaleOpen, SaleHolds
  <2>6. itemSale.buyer \notin {"seller", "collateral", "escrow"}
      BY <2>3, ItemAssumption
  <2>7. \A x \in Parties : Balance(listing, s, x) = Balance(listing, itemSale, x) + In(t, x) - Out(t, x)
      BY <1>0, <2>1, <2>2, <2>3, <2>5, <2>6 DEF Balance, In, Out, Transfer
  <2>8. KeysFit(listing, s, itemPosted \cup {t.key}) /\ t.key \notin itemPosted
      BY <2>3, <2>4, <2>5 DEF KeysFit
  <2> HIDE DEF t
  <2> QED
      BY <1>0, <2>1, <2>2, <2>4, <2>5, <2>7, <2>8, OnePosted
<1>9. CASE MarkDelivered
  <2> DEFINE s == [itemSale EXCEPT !.status = "DELIVERED"]
  <2>1. s \in SaleRows /\ s.status = "DELIVERED" /\ s.buyer = itemSale.buyer /\ s.price = itemSale.price
        /\ s.resolution = itemSale.resolution
      BY <1>e DEF SaleOpen
  <2>2. itemSale.status = "AWAITING_DELIVERY" /\ itemSale' = s /\ UNCHANGED listing /\ Post({})
      BY <1>9 DEF MarkDelivered, SaleMoves
  <2> HIDE DEF s
  <2>3. UNCHANGED <<account, itemPosted>>
      BY <2>2, AccountsInt, PostNothing
  <2>4. SaleFits(listing, s) /\ Locked(listing, s) /\ Locked(listing, itemSale) /\ Held(s) /\ Held(itemSale)
      BY <1>0, <2>1, <2>2 DEF SaleFits, Locked, Held, SaleOpen, SaleHolds
  <2> QED
      BY <1>0, <2>1, <2>2, <2>3, <2>4, NothingPosted
<1>10. CASE DisputeSale
  <2> DEFINE k == [itemSale EXCEPT !.status = "DISPUTED"]
             s == [k EXCEPT !.resolution = "OPEN"]
  <2>1. k \in SaleRows /\ k.status = "DISPUTED" /\ k.buyer = itemSale.buyer /\ k.price = itemSale.price
      BY <1>e DEF SaleOpen
  <2>2. itemSale.status \in {"AWAITING_DELIVERY", "DELIVERED"} /\ itemSale' = s /\ UNCHANGED <<listing, account, itemPosted>>
      BY <1>10 DEF DisputeSale
  <2> HIDE DEF k
  <2>3. s \in SaleRows /\ s.status = k.status /\ s.buyer = k.buyer /\ s.price = k.price /\ s.resolution = "OPEN"
      BY <2>1 DEF SaleRows
  <2> HIDE DEF s
  <2>4. SaleFits(listing, s) /\ Locked(listing, s) /\ Locked(listing, itemSale) /\ Held(s) /\ Held(itemSale)
      BY <1>0, <2>1, <2>2, <2>3 DEF SaleFits, Locked, Held, SaleOpen, SaleHolds
  <2> QED
      BY <1>0, <2>1, <2>2, <2>3, <2>4, NothingPosted
<1>11. ASSUME CompleteSale \/ DefaultSeller, itemSale.status \in {"AWAITING_DELIVERY", "DELIVERED"} PROVE ItemInv'
  <2>1. Held(itemSale) /\ itemSale.resolution # "OPEN"
      BY <1>0, <1>11 DEF Held, SaleHolds, SaleFits
  <2>2. CASE CompleteSale
    <3> DEFINE s == [itemSale EXCEPT !.status = "COMPLETED"]
    <3>1. s \in SaleRows /\ s.status = "COMPLETED" /\ s.buyer = itemSale.buyer /\ s.price = itemSale.price
          /\ s.resolution = itemSale.resolution
        BY <1>e
    <3>2. itemSale' = s /\ UNCHANGED listing /\ Post({PaySeller, ReleaseCollateral("seller")})
        BY <2>2 DEF CompleteSale, SaleMoves
    <3> HIDE DEF s
    <3> QED
        BY <2>1, <3>1, <3>2, SaleEnds
  <2>3. CASE DefaultSeller
    <3> DEFINE s == [itemSale EXCEPT !.status = "SELLER_DEFAULTED"]
    <3>1. s \in SaleRows /\ s.status = "SELLER_DEFAULTED" /\ s.buyer = itemSale.buyer /\ s.price = itemSale.price
          /\ s.resolution = itemSale.resolution
        BY <1>e
    <3>2. itemSale' = s /\ UNCHANGED listing /\ Post({RefundPayment, ReleaseCollateral(itemSale.buyer)})
        BY <2>3 DEF DefaultSeller, SaleMoves
    <3> HIDE DEF s
    <3> QED
        BY <2>1, <3>1, <3>2, SaleEnds
  <2> QED
      BY <1>11, <2>2, <2>3
<1>12. ASSUME NEW outcome \in {"RELEASE_TO_SELLER", "REFUND_WITH_COLLATERAL", "REFUND"}, ResolveItemDispute(outcome) PROVE ItemInv'
  <2> DEFINE to == IF outcome = "RELEASE_TO_SELLER" THEN "COMPLETED"
                   ELSE IF outcome = "REFUND_WITH_COLLATERAL" THEN "SELLER_DEFAULTED" ELSE "REFUNDED"
             k == [itemSale EXCEPT !.resolution = outcome]
             s == [k EXCEPT !.status = to]
  <2>1. k \in SaleRows /\ k.buyer = itemSale.buyer /\ k.price = itemSale.price /\ k.resolution = outcome
      BY <1>0 DEF SaleRows
  <2>2. itemSale' = s /\ UNCHANGED listing /\ itemSale.status = "DISPUTED"
      BY <1>12 DEF ResolveItemDispute
  <2>3. \/ to = "COMPLETED" /\ Post({PaySeller, ReleaseCollateral("seller")})
        \/ to = "SELLER_DEFAULTED" /\ Post({RefundPayment, ReleaseCollateral(itemSale.buyer)})
        \/ to = "REFUNDED" /\ Post({RefundPayment, ReleaseCollateral("seller")})
      BY <1>12 DEF ResolveItemDispute
  <2> HIDE DEF k, to
  <2>4. s \in SaleRows /\ s.status = to /\ s.buyer = k.buyer /\ s.price = k.price /\ s.resolution = k.resolution
      BY <2>1, <2>3 DEF SaleRows
  <2>5. Held(itemSale) /\ s.resolution # "OPEN"
      BY <2>1, <2>2, <2>4 DEF Held, SaleHolds
  <2> HIDE DEF s
  <2> QED
      BY <2>1, <2>2, <2>3, <2>4, <2>5, SaleEnds
<1>13. ASSUME SaleMoves("PAYMENT_EXPIRED", {ReleaseCollateral("seller")}), itemSale.status = "AWAITING_PAYMENT" PROVE ItemInv'
  <2> DEFINE s == [itemSale EXCEPT !.status = "PAYMENT_EXPIRED"]
             t == ReleaseCollateral("seller")
  <2>1. s \in SaleRows /\ s.status = "PAYMENT_EXPIRED" /\ s.buyer = itemSale.buyer /\ s.price = itemSale.price
        /\ s.resolution = itemSale.resolution
      BY <1>e
  <2>2. itemSale' = s /\ UNCHANGED listing /\ Post({t})
      BY <1>13 DEF SaleMoves
  <2> HIDE DEF s
  <2>3. listing.status = "SOLD" /\ Locked(listing, itemSale) /\ ~Held(itemSale) /\ itemPosted = {"collateral-lock"}
        /\ itemSale.resolution # "OPEN"
      BY <1>0, <1>13 DEF SaleFits, Locked, SaleOpen, Held, SaleHolds, KeysFit
  <2>4. t \in Transfers /\ t.key = "collateral-release"
      BY <1>0, TransferTyped DEF ReleaseCollateral, TransferKeys
  <2>5. ~Locked(listing, s) /\ ~Held(s) /\ SaleFits(listing, s)
      BY <1>0, <1>13, <2>1, <2>3 DEF SaleFits, Locked, Held, SaleOpen, SaleHolds
  <2>6. \A x \in Parties : Balance(listing, s, x) = Balance(listing, itemSale, x) + In(t, x) - Out(t, x)
      BY <1>0, <1>13, <2>1, <2>3, <2>5 DEF Balance, In, Out, ReleaseCollateral, Transfer
  <2>7. KeysFit(listing, s, itemPosted \cup {t.key}) /\ t.key \notin itemPosted
      BY <2>3, <2>4, <2>5 DEF KeysFit
  <2> HIDE DEF t
  <2> QED
      BY <1>0, <2>1, <2>2, <2>4, <2>5, <2>6, <2>7, OnePosted
<1>14. CASE SettleSale
  <2>1. CASE DueFor = "payment"
    <3>1. itemSale.status = "AWAITING_PAYMENT"
        BY <2>1 DEF DueFor
    <3> QED
        BY <1>13, <1>14, <2>1, <3>1 DEF SettleSale, SettleFor
  <2>2. CASE DueFor = "confirm"
    <3>1. itemSale.status = "DELIVERED"
        BY <2>2 DEF DueFor
    <3> QED
        BY <1>11, <1>14, <2>2, <3>1 DEF SettleSale, SettleFor
  <2>3. CASE DueFor = "delivery"
    <3>1. itemSale.status = "AWAITING_DELIVERY"
        BY <2>3 DEF DueFor
    <3> QED
        BY <1>11, <1>14, <2>3, <3>1 DEF SettleSale, SettleFor
  <2>4. CASE DueFor \notin {"payment", "confirm", "delivery"}
      BY <1>14, <1>c, <2>4 DEF SettleSale, SettleFor
  <2> QED
      BY <2>1, <2>2, <2>3, <2>4
<1>15. CASE ConfirmReceived \/ ClaimRefund
    BY <1>11, <1>15 DEF ConfirmReceived, ClaimRefund
<1>16. CASE ListDueSale \/ ItemPasses \/ UNCHANGED itemVars
    BY <1>16, <1>c DEF ListDueSale, ItemPasses, ItemTime, itemVars
<1> QED
    BY <1>1, <1>3, <1>4, <1>6, <1>7, <1>8, <1>9, <1>10, <1>12, <1>14, <1>15, <1>16 DEF ItemNext, ItemJob

\* The sandbox escrow of items: for any prices, collateral and bidders and any race of timers, commands and the
\* settlement job, the holding accounts hold what is undecided and every end pays whom the outcome names.
THEOREM ItemEscrowSettles == ItemSpec => []EscrowSettled
<1>1. ItemInit => ItemInv
    BY ItemInitHolds
<1>2. ItemInv /\ [ItemNext]_itemVars => ItemInv'
    BY ItemNextKeeps
<1>3. ItemInv => EscrowSettled
  <2> SUFFICES ASSUME ItemInv PROVE EscrowSettled
      OBVIOUS
  <2>1. DOMAIN account = Parties /\ \A x \in Parties : account[x] = Balance(listing, itemSale, x)
      BY DEF ItemInv
  <2>2. {"seller", "collateral", "escrow"} \subseteq Parties
      BY DEF Parties
  <2>3. itemSale.status # "NONE" => itemSale.buyer \in Parties /\ itemSale.buyer \notin {"seller", "collateral", "escrow"}
                                    /\ listing.status = "SOLD"
      BY ItemAssumption DEF ItemInv, SaleFits, Parties
  <2>4. account["collateral"] = IF listing.status = "OPEN" \/ itemSale.status \in SaleOpen THEN Collateral ELSE 0
      BY <2>1, <2>2 DEF Balance, Locked
  <2>5. account["escrow"] = IF itemSale.status \in SaleHolds THEN itemSale.price ELSE 0
      BY <2>1, <2>2 DEF Balance, Held
  <2>6. itemSale.status = "COMPLETED" => account["seller"] = itemSale.price /\ account[itemSale.buyer] = 0 - itemSale.price
      BY <2>1, <2>2, <2>3 DEF Balance, Locked, SaleOpen
  <2>7. itemSale.status = "SELLER_DEFAULTED" => account["seller"] = 0 - Collateral /\ account[itemSale.buyer] = Collateral
      BY <2>1, <2>2, <2>3 DEF Balance, Locked, SaleOpen, Held, SaleHolds
  <2>8. itemSale.status \in {"REFUNDED", "PAYMENT_EXPIRED"} => \A x \in DOMAIN account : account[x] = 0
      BY <2>1, <2>3 DEF Balance, Locked, SaleOpen, Held, SaleHolds
  <2> QED
      BY <2>4, <2>5, <2>6, <2>7, <2>8 DEF EscrowSettled, ItemInv, SaleFits
<1> QED
    BY <1>1, <1>2, <1>3, PTL DEF ItemSpec

-----------------------------------------------------------------------------
(* Performance bonuses *)

PerfSpec == PerfInit /\ [][PerfNext]_perfVars

MeasureRows == [status : {"NONE", "SCHEDULED", "MEASURED", "HELD", "APPROVED", "REJECTED"}, bonus : Int, due : BOOLEAN]
PerfOrderRows == [status : {"IN_PROGRESS", "DELIVERED", "REVISION_REQUESTED", "DISPUTED", "APPROVED", "COMPLETED", "CANCELLED", "REFUNDED"},
                  before : {"NONE", "IN_PROGRESS", "DELIVERED", "REVISION_REQUESTED"},
                  payment : {"SUCCEEDED", "REFUND_PENDING", "PARTIALLY_REFUNDED", "REFUNDED"},
                  settlement : {"NOT_READY", "READY", "PENDING", "RELEASED"}, unused : Int, agreed : Int, ask : Int]
PerfOpRows == [amount : Int, state : {"NONE", "RETRY", "REJECTED", "ACCEPTED", "CONFIRMED"}]
PerfTypes == /\ measure \in MeasureRows /\ perfOrder \in PerfOrderRows /\ published \in Nat
             /\ perfOps \in [RefundOps \cup ReleaseOps -> PerfOpRows]

\* The judgement of the post and the split on the order are one: recorded together, and never changed afterwards.
Decided(m) == m.status \in {"APPROVED", "REJECTED"}
SplitFits(m, o, n) ==
    /\ m.bonus <= PerfCap /\ (m.status = "NONE" <=> n = 0)
    /\ IF Decided(m) THEN o.unused = PerfCap - PaidBonus(m) ELSE o.unused = Null
\* An order with a delivery behind it has a measurement; a refund is pending only for a cancelled order.
WorkFits(o, n) ==
    /\ o.status \in {"DELIVERED", "APPROVED", "COMPLETED"} => n > 0
    /\ o.status = "DISPUTED" => o.before # "NONE" /\ (o.before = "DELIVERED" => n > 0)
    /\ o.payment = "REFUND_PENDING" => o.status = "CANCELLED"
\* A refund that was ever asked for is the unused hold, or goes with a cancellation.
RefundFits(m, o, ops) ==
    /\ ops["performance"].state # "NONE" => Decided(m) /\ ops["performance"].amount = o.unused
    /\ \A x \in {"agreed", "full"} : ops[x].state # "NONE" => o.status \in {"CANCELLED", "REFUNDED"}
\* A release that was ever asked for is the one the order asks for now, in that amount, and the post is judged.
Releasable(m, o) ==
    /\ m.status \notin {"SCHEDULED", "MEASURED", "HELD"}
    /\ o.status \in {"APPROVED", "COMPLETED"} \/ (o.status = "CANCELLED" /\ o.agreed # Null /\ o.agreed < MaxPayout)
ReleaseFits(m, o, ops) ==
    /\ \A x \in ReleaseOps : ops[x].state # "NONE" => x = ReleaseOp(o) /\ ops[x].amount = MaxPayout - Withheld(o) /\ Releasable(m, o)
    /\ o.status = "COMPLETED" => \E x \in ReleaseOps : ops[x].state = "CONFIRMED"
PerfFits(m, o, ops, n) == SplitFits(m, o, n) /\ WorkFits(o, n) /\ RefundFits(m, o, ops) /\ ReleaseFits(m, o, ops)
PerfInv == PerfTypes /\ PerfFits(measure, perfOrder, perfOps, published)


LEMMA PerfInitHolds == PerfInit => PerfInv
<1> SUFFICES ASSUME PerfInit PROVE PerfInv
    OBVIOUS
<1>1. PerfTypes
    BY DEF PerfInit, PerfTypes, MeasureRows, PerfOrderRows, PerfOpRows, Null
<1>2. \A x \in RefundOps \cup ReleaseOps : perfOps[x].state = "NONE"
    BY DEF PerfInit
<1>3. SplitFits(measure, perfOrder, published) /\ WorkFits(perfOrder, published)
    BY PerfAssumption DEF PerfInit, SplitFits, WorkFits, Decided
<1>4. RefundFits(measure, perfOrder, perfOps) /\ ReleaseFits(measure, perfOrder, perfOps)
    BY <1>2 DEF RefundFits, ReleaseFits, RefundOps, PerfInit
<1> QED
    BY <1>1, <1>3, <1>4 DEF PerfInv, PerfFits

\* A call touches one operation, takes nothing back from the provider, and asks for the amount it was given.
LEMMA CallStep ==
    ASSUME PerfTypes, NEW o \in RefundOps \cup ReleaseOps, NEW amount \in Int, NEW lost \in BOOLEAN, Call(o, amount, lost)
    PROVE  /\ perfOps' \in [RefundOps \cup ReleaseOps -> PerfOpRows] /\ perfOps'[o].amount = amount
           /\ \A x \in RefundOps \cup ReleaseOps : x # o => perfOps'[x] = perfOps[x]
           /\ \A x \in RefundOps \cup ReleaseOps : perfOps[x].state = "CONFIRMED" => perfOps'[x] = perfOps[x]
<1>1. perfOps \in [RefundOps \cup ReleaseOps -> PerfOpRows]
    BY DEF PerfTypes
<1>2. CASE AtProvider(o)
  <2>1. perfOps' = perfOps /\ perfOps[o].amount = amount
      BY <1>2 DEF Call, AtProvider
  <2> QED
      BY <1>1, <2>1
<1>3. CASE ~AtProvider(o)
  <2> DEFINE s == CASE lost -> "RETRY" [] amount > Uncommitted -> "REJECTED" [] OTHER -> "ACCEPTED"
             row == [amount |-> amount, state |-> s]
  <2>1. perfOps' = [perfOps EXCEPT ![o] = row]
      BY <1>3 DEF Call
  <2>2. s \in {"RETRY", "REJECTED", "ACCEPTED"}
      OBVIOUS
  <2> HIDE DEF s
  <2>3. row \in PerfOpRows /\ row.amount = amount
      BY <2>2 DEF PerfOpRows
  <2> HIDE DEF row
  <2>4. perfOps[o].state # "CONFIRMED"
      BY <1>3 DEF AtProvider
  <2> QED
      BY <1>1, <2>1, <2>3, <2>4
<1> QED
    BY <1>2, <1>3

\* Where a refund goes: the unused hold unless the order is cancelled, and then what was agreed.
LEMMA RefundGoes ==
    ASSUME NEW o \in PerfOrderRows
    PROVE  /\ RefundSum(o) \in Int /\ RefundOp(o) \in RefundOps
           /\ o.status # "CANCELLED" /\ o.unused # Null => RefundOp(o) = "performance" /\ RefundSum(o) = o.unused
           /\ o.status = "CANCELLED" => RefundOp(o) \in {"agreed", "full"}
<1>1. MaxPayout \in Int
    BY PerfAssumption DEF MaxPayout
<1>2. CASE UnusedHold(o)
  <2>1. RefundSum(o) = o.unused /\ RefundOp(o) = "performance"
      BY <1>2 DEF RefundSum, RefundOp
  <2>2. o.status # "CANCELLED" /\ o.unused \in Int
      BY <1>2 DEF UnusedHold, PerfOrderRows
  <2> QED
      BY <2>1, <2>2 DEF RefundOps
<1>3. CASE ~UnusedHold(o)
  <2>1. CASE o.agreed # Null
      BY <1>1, <1>3, <2>1 DEF UnusedHold, RefundSum, RefundOp, RefundOps, PerfOrderRows
  <2>2. CASE o.agreed = Null
      BY <1>1, <1>3, <2>2 DEF UnusedHold, RefundSum, RefundOp, RefundOps, PerfOrderRows
  <2> QED
      BY <2>1, <2>2
<1> QED
    BY <1>2, <1>3

LEMMA ReleaseGoes ==
    ASSUME NEW o \in PerfOrderRows
    PROVE  ReleaseOp(o) \in ReleaseOps /\ Withheld(o) \in Int /\ MaxPayout - Withheld(o) \in Int
<1>1. MaxPayout \in Int
    BY PerfAssumption DEF MaxPayout
<1>2. ReleaseOp(o) \in ReleaseOps
    BY DEF ReleaseOp, ReleaseOps
<1>3. Withheld(o) \in Int
    BY DEF Withheld, PerfOrderRows
<1> QED
    BY <1>1, <1>2, <1>3

\* Until the order is approved or cancelled no release, and no refund but of the unused hold, was ever asked for.
LEMMA NothingAskedYet ==
    ASSUME PerfInv, perfOrder.status \notin {"APPROVED", "COMPLETED", "CANCELLED", "REFUNDED"}
    PROVE  /\ \A x \in ReleaseOps : perfOps[x].state = "NONE"
           /\ perfOps["agreed"].state = "NONE" /\ perfOps["full"].state = "NONE"
    BY DEF PerfInv, PerfFits, ReleaseFits, RefundFits, Releasable

\* A step of the parties before settlement: operations and split stay, and the order is not yet complete.
LEMMA WorkStep ==
    ASSUME PerfInv, PerfTypes', perfOps' = perfOps, perfOrder.status \notin {"APPROVED", "COMPLETED", "CANCELLED", "REFUNDED"},
           perfOrder'.status # "COMPLETED", perfOrder'.unused = perfOrder.unused, SplitFits(measure, perfOrder, published)',
           WorkFits(perfOrder', published'), Decided(measure) => measure' = measure
    PROVE  PerfInv'
<1>1. RefundFits(measure', perfOrder', perfOps')
    BY NothingAskedYet DEF PerfInv, PerfFits, RefundFits
<1>2. ReleaseFits(measure', perfOrder', perfOps')
    BY NothingAskedYet DEF ReleaseFits
<1> QED
    BY <1>1, <1>2 DEF PerfInv, PerfFits

LEMMA PublishKeeps ==
    ASSUME PerfInv, NEW proof \in Proofs, Publish(proof)
    PROVE  PerfInv'
<1> DEFINE due == proof.live = "long_ago"
           fresh == [status |-> "SCHEDULED", bonus |-> 0, due |-> due]
<1>1. /\ perfOrder.status \in {"IN_PROGRESS", "REVISION_REQUESTED"} /\ perfOrder' = [perfOrder EXCEPT !.status = "DELIVERED", !.ask = Null]
      /\ published' = published + 1 /\ perfOps' = perfOps
      /\ measure' = IF measure.status \in {"NONE", "SCHEDULED"} THEN fresh ELSE measure
    BY DEF Publish
<1>2. /\ perfOrder' \in PerfOrderRows /\ perfOrder'.status = "DELIVERED" /\ perfOrder'.unused = perfOrder.unused
      /\ perfOrder'.payment = perfOrder.payment
  <2>1. perfOrder \in PerfOrderRows /\ Null \in Int
      BY DEF PerfInv, PerfTypes, Null
  <2> QED
      BY <1>1, <2>1 DEF PerfOrderRows
<1>3. fresh \in MeasureRows /\ fresh.status = "SCHEDULED" /\ fresh.bonus = 0
  <2>1. due \in BOOLEAN
      OBVIOUS
  <2> HIDE DEF due
  <2> QED
      BY <2>1 DEF MeasureRows
<1> HIDE DEF fresh
<1>4. measure' \in MeasureRows /\ (measure' = fresh \/ (measure' = measure /\ measure.status # "NONE")) /\ (Decided(measure) => measure' = measure)
    BY <1>1, <1>3 DEF PerfInv, PerfTypes, Decided
<1>5. PerfTypes'
    BY <1>1, <1>2, <1>4 DEF PerfInv, PerfTypes
<1>6. SplitFits(measure, perfOrder, published)'
  <2>1. SplitFits(measure, perfOrder, published) /\ published \in Nat
      BY DEF PerfInv, PerfFits, PerfTypes
  <2>2. CASE measure' = measure /\ measure.status # "NONE"
      BY <1>1, <1>2, <2>1, <2>2 DEF SplitFits
  <2>3. CASE measure' = fresh /\ measure' # measure
    <3>1. ~Decided(measure) /\ ~Decided(measure')
        BY <1>3, <1>4, <2>3 DEF Decided
    <3> QED
        BY <1>1, <1>2, <1>3, <2>1, <2>3, <3>1, PerfAssumption DEF SplitFits
  <2>4. CASE measure' = fresh /\ measure' = measure
    <3>1. measure.status # "NONE"
        BY <1>3, <2>4
    <3> QED
        BY <2>2, <2>4, <3>1
  <2> QED
      BY <1>4, <2>2, <2>3, <2>4
<1>7. WorkFits(perfOrder', published')
  <2>1. WorkFits(perfOrder, published) /\ published \in Nat
      BY DEF PerfInv, PerfFits, PerfTypes
  <2> QED
      BY <1>1, <1>2, <2>1 DEF WorkFits
<1> QED
    BY <1>1, <1>2, <1>4, <1>5, <1>6, <1>7, WorkStep

\* Revision, approval, dispute, its end without a refund, and a request to cancel.
LEMMA PartiesKeep ==
    ASSUME PerfInv, UNCHANGED <<measure, perfOps, published>>, perfOrder' \in PerfOrderRows,
           perfOrder'.unused = perfOrder.unused, perfOrder'.payment = perfOrder.payment,
           perfOrder.status \notin {"APPROVED", "COMPLETED", "CANCELLED", "REFUNDED"},
           perfOrder'.status \notin {"COMPLETED", "CANCELLED", "REFUNDED"},
           perfOrder'.status \in {"DELIVERED", "APPROVED"} => published > 0,
           perfOrder'.status = "DISPUTED" => perfOrder'.before # "NONE" /\ (perfOrder'.before = "DELIVERED" => published > 0)
    PROVE  PerfInv'
<1>2. PerfTypes'
    BY DEF PerfInv, PerfTypes
<1>3. SplitFits(measure, perfOrder, published)'
    BY DEF PerfInv, PerfFits, SplitFits, PaidBonus, Decided
<1>4. WorkFits(perfOrder', published')
    BY DEF PerfInv, PerfFits, WorkFits
<1> QED
    BY <1>2, <1>3, <1>4, WorkStep

LEMMA RevisionKeeps == ASSUME PerfInv, PerfRevision PROVE PerfInv'
<1>1. /\ perfOrder.status = "DELIVERED" /\ perfOrder' = [perfOrder EXCEPT !.status = "REVISION_REQUESTED", !.ask = Null]
      /\ UNCHANGED <<measure, perfOps, published>>
    BY DEF PerfRevision
<1>2. perfOrder \in PerfOrderRows /\ Null \in Int
    BY DEF PerfInv, PerfTypes, Null
<1> HIDE DEF Null
<1>3. /\ perfOrder' \in PerfOrderRows /\ perfOrder'.unused = perfOrder.unused /\ perfOrder'.payment = perfOrder.payment
      /\ perfOrder'.status = "REVISION_REQUESTED"
    BY <1>1, <1>2 DEF PerfOrderRows
<1> QED
    BY <1>1, <1>2, <1>3, PartiesKeep

LEMMA ApproveKeeps ==
    ASSUME PerfInv, perfOrder.status \in {"DELIVERED", "DISPUTED"}, published > 0, perfOrder' = Approved(perfOrder), UNCHANGED <<measure, perfOps, published>>
    PROVE  PerfInv'
<1>2. perfOrder \in PerfOrderRows /\ Null \in Int
    BY DEF PerfInv, PerfTypes, Null
<1>3. /\ perfOrder' \in PerfOrderRows /\ perfOrder'.unused = perfOrder.unused /\ perfOrder'.payment = perfOrder.payment
      /\ perfOrder'.status = "APPROVED"
    BY <1>2 DEF PerfOrderRows, Approved
<1> QED
    BY <1>2, <1>3, PartiesKeep

LEMMA DisputeKeeps == ASSUME PerfInv, PerfDispute PROVE PerfInv'
<1>1. /\ perfOrder' = [perfOrder EXCEPT !.status = "DISPUTED", !.before = perfOrder.status, !.ask = Null]
      /\ perfOrder.status \in {"IN_PROGRESS", "DELIVERED", "REVISION_REQUESTED"} /\ UNCHANGED <<measure, perfOps, published>>
    BY DEF PerfDispute, Working
<1>2. perfOrder \in PerfOrderRows /\ Null \in Int /\ WorkFits(perfOrder, published)
    BY DEF PerfInv, PerfTypes, Null, PerfFits
<1>3. /\ perfOrder' \in PerfOrderRows /\ perfOrder'.unused = perfOrder.unused /\ perfOrder'.payment = perfOrder.payment
      /\ perfOrder'.status = "DISPUTED" /\ perfOrder'.before = perfOrder.status
    BY <1>1, <1>2 DEF PerfOrderRows
<1>4. perfOrder.status = "DELIVERED" => published > 0
    BY <1>2 DEF WorkFits
<1> QED
    BY <1>1, <1>2, <1>3, <1>4, PartiesKeep

LEMMA AskKeeps == ASSUME PerfInv, NEW refund \in Int, AskCancellation(refund) PROVE PerfInv'
<1>1. /\ perfOrder' = [perfOrder EXCEPT !.ask = refund]
      /\ perfOrder.status \in {"IN_PROGRESS", "DELIVERED", "REVISION_REQUESTED"} /\ UNCHANGED <<measure, perfOps, published>>
    BY DEF AskCancellation, Working
<1>2. perfOrder \in PerfOrderRows /\ WorkFits(perfOrder, published)
    BY DEF PerfInv, PerfTypes, PerfFits
<1>3. /\ perfOrder' \in PerfOrderRows /\ perfOrder'.unused = perfOrder.unused /\ perfOrder'.payment = perfOrder.payment
      /\ perfOrder'.status = perfOrder.status
    BY <1>1, <1>2 DEF PerfOrderRows
<1>4. perfOrder.status = "DELIVERED" => published > 0
    BY <1>2 DEF WorkFits
<1> QED
    BY <1>1, <1>2, <1>3, <1>4, PartiesKeep

\* A working or disputed order is cancelled and its refund, if any, asked for: no release was.
LEMMA CancelStep ==
    ASSUME PerfInv, perfOrder.status \notin {"APPROVED", "COMPLETED", "CANCELLED", "REFUNDED"}, perfOrder' \in PerfOrderRows,
           perfOrder'.status = "CANCELLED", perfOrder'.unused = perfOrder.unused, UNCHANGED <<measure, published>>,
           NEW lost \in BOOLEAN, RequestRefund(perfOrder', lost) \/ perfOps' = perfOps
    PROVE  PerfInv'
<1>1. /\ PerfTypes /\ SplitFits(measure, perfOrder, published) /\ WorkFits(perfOrder, published)
      /\ RefundFits(measure, perfOrder, perfOps)
    BY DEF PerfInv, PerfFits
<1>2. RefundSum(perfOrder') \in Int /\ RefundOp(perfOrder') \in {"agreed", "full"}
    BY RefundGoes
<1>3. /\ perfOps' \in [RefundOps \cup ReleaseOps -> PerfOpRows]
      /\ \A x \in ReleaseOps \cup {"performance"} : perfOps'[x] = perfOps[x]
  <2>1. CASE perfOps' = perfOps
      BY <1>1, <2>1 DEF PerfTypes
  <2>2. CASE RequestRefund(perfOrder', lost)
    <3>1. Call(RefundOp(perfOrder'), RefundSum(perfOrder'), lost) /\ RefundOp(perfOrder') \in RefundOps \cup ReleaseOps
        BY <1>2, <2>2 DEF RequestRefund, RefundOps
    <3>2. \A x \in ReleaseOps \cup {"performance"} : x # RefundOp(perfOrder') /\ x \in RefundOps \cup ReleaseOps
        BY <1>2 DEF ReleaseOps, RefundOps
    <3> DEFINE op == RefundOp(perfOrder')
               sum == RefundSum(perfOrder')
    <3> HIDE DEF op, sum
    <3>3. PerfTypes /\ op \in RefundOps \cup ReleaseOps /\ sum \in Int /\ lost \in BOOLEAN /\ Call(op, sum, lost)
        BY <1>1, <1>2, <3>1 DEF op, sum
    <3>4. /\ perfOps' \in [RefundOps \cup ReleaseOps -> PerfOpRows]
          /\ \A x \in RefundOps \cup ReleaseOps : x # op => perfOps'[x] = perfOps[x]
        BY <3>3, CallStep
    <3> QED
        BY <3>2, <3>4 DEF op
  <2> QED
      BY <2>1, <2>2
<1>4. PerfTypes'
    BY <1>1, <1>3 DEF PerfTypes
<1>5. SplitFits(measure', perfOrder', published') /\ WorkFits(perfOrder', published')
    BY <1>1 DEF SplitFits, WorkFits, PaidBonus, Decided
<1>6. RefundFits(measure', perfOrder', perfOps')
    BY <1>1, <1>3 DEF RefundFits, Decided
<1>7. ReleaseFits(measure', perfOrder', perfOps')
    BY <1>3, NothingAskedYet DEF ReleaseFits
<1> QED
    BY <1>4, <1>5, <1>6, <1>7 DEF PerfInv, PerfFits

LEMMA DecideKeeps ==
    ASSUME PerfInv, NEW outcome \in {"RESUME", "APPROVE", "REFUND_FULL"}, NEW lost \in BOOLEAN, DecideDispute(outcome, lost)
    PROVE  PerfInv'
<1>1. perfOrder.status = "DISPUTED" /\ UNCHANGED <<measure, published>>
    BY DEF DecideDispute
<1>2. perfOrder \in PerfOrderRows /\ WorkFits(perfOrder, published)
    BY DEF PerfInv, PerfTypes, PerfFits
<1>3. CASE outcome = "RESUME"
  <2>1. perfOrder' = [perfOrder EXCEPT !.status = perfOrder.before, !.before = "NONE"] /\ UNCHANGED perfOps
      BY <1>3 DEF DecideDispute
  <2>3. /\ perfOrder.before \in {"IN_PROGRESS", "DELIVERED", "REVISION_REQUESTED"}
        /\ perfOrder.before = "DELIVERED" => published > 0
      BY <1>1, <1>2 DEF WorkFits, PerfOrderRows
  <2>2. /\ perfOrder' \in PerfOrderRows /\ perfOrder'.unused = perfOrder.unused /\ perfOrder'.payment = perfOrder.payment
        /\ perfOrder'.status = perfOrder.before
      BY <1>2, <2>1, <2>3 DEF PerfOrderRows
  <2> QED
      BY <1>1, <2>1, <2>2, <2>3, PartiesKeep
<1>4. CASE outcome = "APPROVE"
  <2>1. published > 0 /\ perfOrder' = Approved(perfOrder) /\ UNCHANGED perfOps
      BY <1>4 DEF DecideDispute
  <2> QED
      BY <1>1, <2>1, ApproveKeeps
<1>5. CASE outcome = "REFUND_FULL"
  <2>1. /\ perfOrder' = [perfOrder EXCEPT !.status = "CANCELLED", !.payment = "REFUND_PENDING", !.settlement = "NOT_READY"]
        /\ RequestRefund(perfOrder', lost)
      BY <1>5 DEF DecideDispute
  <2>2. perfOrder' \in PerfOrderRows /\ perfOrder'.status = "CANCELLED" /\ perfOrder'.unused = perfOrder.unused
      BY <1>2, <2>1 DEF PerfOrderRows
  <2> QED
      BY <1>1, <2>1, <2>2, CancelStep
<1> QED
    BY <1>3, <1>4, <1>5

LEMMA AgreeKeeps == ASSUME PerfInv, NEW lost \in BOOLEAN, AgreeCancellation(lost) PROVE PerfInv'
<1> DEFINE p == IF perfOrder.ask > 0 THEN "REFUND_PENDING" ELSE perfOrder.payment
           t == IF perfOrder.ask < MaxPayout THEN "READY" ELSE "NOT_READY"
<1>1. perfOrder \in PerfOrderRows /\ Null \in Int
    BY DEF PerfInv, PerfTypes, Null
<1>2. /\ perfOrder.status \in {"IN_PROGRESS", "DELIVERED", "REVISION_REQUESTED"} /\ UNCHANGED <<measure, published>>
      /\ perfOrder' = [perfOrder EXCEPT !.status = "CANCELLED", !.agreed = perfOrder.ask, !.ask = Null, !.payment = p, !.settlement = t]
      /\ RequestRefund(perfOrder', lost) \/ perfOps' = perfOps
    BY <1>1 DEF AgreeCancellation, Working, PerfOrderRows
<1>3. p \in {"SUCCEEDED", "REFUND_PENDING", "PARTIALLY_REFUNDED", "REFUNDED"} /\ t \in {"NOT_READY", "READY"}
    BY <1>1 DEF PerfOrderRows
<1> HIDE DEF p, t
<1>4. perfOrder' \in PerfOrderRows /\ perfOrder'.status = "CANCELLED" /\ perfOrder'.unused = perfOrder.unused
    BY <1>1, <1>2, <1>3 DEF PerfOrderRows
<1> QED
    BY <1>2, <1>4, CancelStep

\* While the post is being judged nothing was released, and no unused hold asked back.
LEMMA Unjudged ==
    ASSUME PerfInv, measure.status \in {"SCHEDULED", "MEASURED", "HELD"}
    PROVE  /\ \A x \in ReleaseOps : perfOps[x].state = "NONE"
           /\ perfOps["performance"].state = "NONE" /\ perfOrder.unused = Null /\ perfOrder.status # "COMPLETED" /\ published # 0
<1>1. ~Decided(measure) /\ \A o : ~Releasable(measure, o)
    BY DEF Decided, Releasable
<1>2. \A x \in ReleaseOps : perfOps[x].state = "NONE"
    BY <1>1 DEF PerfInv, PerfFits, ReleaseFits
<1>3. perfOps["performance"].state = "NONE" /\ perfOrder.unused = Null /\ published # 0
    BY <1>1 DEF PerfInv, PerfFits, RefundFits, SplitFits
<1>4. perfOrder.status # "COMPLETED"
    BY <1>2 DEF PerfInv, PerfFits, ReleaseFits
<1> QED
    BY <1>2, <1>3, <1>4

\* A step of the judgement, before any call it makes: the order keeps its status, and the split is recorded with the decision.
LEMMA JudgeStep ==
    ASSUME PerfInv, measure.status \in {"SCHEDULED", "MEASURED", "HELD"}, published' = published,
           perfOrder'.status = perfOrder.status, perfOrder'.before = perfOrder.before, perfOrder'.payment = perfOrder.payment,
           SplitFits(measure', perfOrder', published')
    PROVE  PerfFits(measure', perfOrder', perfOps, published')
<1>1. WorkFits(perfOrder', published')
    BY DEF PerfInv, PerfFits, WorkFits
<1>2. RefundFits(measure', perfOrder', perfOps)
    BY Unjudged DEF PerfInv, PerfFits, RefundFits
<1>3. ReleaseFits(measure', perfOrder', perfOps)
    BY Unjudged DEF ReleaseFits
<1> QED
    BY <1>1, <1>2, <1>3 DEF PerfFits

LEMMA PassesKeeps == ASSUME PerfInv, MeasurePasses PROVE PerfInv'
<1>1. /\ measure.status \in {"SCHEDULED", "MEASURED", "HELD"} /\ measure' = [measure EXCEPT !.due = TRUE]
      /\ UNCHANGED <<perfOrder, perfOps, published>>
    BY DEF MeasurePasses
<1>2. measure \in MeasureRows /\ SplitFits(measure, perfOrder, published)
    BY DEF PerfInv, PerfTypes, PerfFits
<1>3. measure' \in MeasureRows /\ measure'.status = measure.status /\ measure'.bonus = measure.bonus
    BY <1>1, <1>2 DEF MeasureRows
<1>4. SplitFits(measure', perfOrder', published')
    BY <1>1, <1>2, <1>3 DEF SplitFits, Decided, PaidBonus
<1>5. PerfFits(measure', perfOrder', perfOps, published')
    BY <1>1, <1>4, JudgeStep
<1> QED
    BY <1>1, <1>3, <1>5 DEF PerfInv, PerfTypes

\* The bonus of a count is an amount no larger than the cap.
LEMMA BonusBounded == \A v \in Nat : SettleMeasurement(v).bonus \in Int /\ SettleMeasurement(v).bonus <= PerfCap
<1> SUFFICES ASSUME NEW v \in Nat PROVE SettleMeasurement(v).bonus \in Int /\ SettleMeasurement(v).bonus <= PerfCap
    OBVIOUS
<1>1. Median \in Nat /\ Multiplier \in Nat /\ RpmRate \in Nat /\ PerfCap \in Nat /\ PerfCap > 0 /\ ViewsPerUnit \in Nat \ {0}
    BY PerfAssumption
<1> DEFINE scaled == Median * Multiplier
           cap == ViewsCap(Median, Multiplier)
           payable == ViewsPayable(v, cap)
           bonus == ViewBonus(payable, RpmRate, PerfCap)
<1>2. scaled \in Int
    BY <1>1
<1>3. scaled \div 100 \in Int
  <2> HIDE DEF scaled
  <2> QED
    BY <1>2
<1>4. cap \in Int
    BY <1>3 DEF ViewsCap
<1> HIDE DEF cap
<1>5. payable \in Int
    BY <1>4 DEF ViewsPayable, Least
<1> HIDE DEF payable
<1> DEFINE units == payable \div ViewsPerUnit
<1>6. units \in Int
    BY <1>1, <1>5
<1> HIDE DEF units
<1> DEFINE earned == units * RpmRate
<1>7. earned \in Int
    BY <1>1, <1>6
<1>8. bonus = IF payable <= 0 \/ RpmRate <= 0 \/ PerfCap <= 0 THEN 0 ELSE Least(earned, PerfCap)
    BY DEF ViewBonus, units
<1> HIDE DEF earned, bonus
<1>9. bonus \in Int /\ bonus <= PerfCap
    BY <1>1, <1>7, <1>8 DEF Least
<1>10. SettleMeasurement(v).bonus = bonus
    BY DEF SettleMeasurement, bonus, payable, cap
<1> QED
    BY <1>9, <1>10

LEMMA MeasureKeeps == ASSUME PerfInv, NEW views \in Views, NEW low \in BOOLEAN, MeasurePost(views, low) PROVE PerfInv'
<1> DEFINE s == IF FarAboveMedian(views) \/ low THEN "HELD" ELSE "MEASURED"
           b == SettleMeasurement(views).bonus
<1>1. /\ measure.status = "SCHEDULED" /\ measure' = [status |-> s, bonus |-> b, due |-> FALSE]
      /\ UNCHANGED <<perfOrder, perfOps, published>>
    BY DEF MeasurePost
<1>2. s \in {"HELD", "MEASURED"} /\ b \in Int /\ b <= PerfCap
    BY BonusBounded, PerfAssumption
<1> HIDE DEF s, b
<1>3. measure' \in MeasureRows /\ measure'.status = s /\ measure'.bonus = b
    BY <1>1, <1>2 DEF MeasureRows
<1>4. ~Decided(measure') /\ perfOrder.unused = Null /\ published # 0
    BY <1>1, <1>2, <1>3, Unjudged DEF Decided
<1>5. SplitFits(measure', perfOrder', published')
    BY <1>1, <1>2, <1>3, <1>4 DEF SplitFits
<1>6. PerfFits(measure', perfOrder', perfOps, published')
    BY <1>1, <1>5, JudgeStep
<1> QED
    BY <1>1, <1>3, <1>6 DEF PerfInv, PerfTypes

\* Recording the decision records what of the cap goes back.
LEMMA SplitRecorded ==
    ASSUME PerfInv, measure.status \in {"MEASURED", "HELD"}, NEW s \in {"APPROVED", "REJECTED"}, RecordSplit(s), published' = published
    PROVE  /\ measure' \in MeasureRows /\ perfOrder' \in PerfOrderRows /\ Decided(measure')
           /\ PerfFits(measure', perfOrder', perfOps, published')
<1>1. /\ measure \in MeasureRows /\ perfOrder \in PerfOrderRows /\ SplitFits(measure, perfOrder, published)
      /\ PerfCap \in Int /\ Null \in Int
    BY PerfAssumption DEF PerfInv, PerfTypes, PerfFits, Null
<1>2. /\ measure' = [measure EXCEPT !.status = s]
      /\ perfOrder' = [perfOrder EXCEPT !.unused = PerfCap - PaidBonus(measure'), !.ask = Null]
    BY DEF RecordSplit
<1>3. measure' \in MeasureRows /\ measure'.status = s /\ measure'.bonus = measure.bonus
    BY <1>1, <1>2 DEF MeasureRows
<1>4. PerfCap - PaidBonus(measure') \in Int
    BY <1>1, <1>3 DEF PaidBonus, MeasureRows
<1> DEFINE rest == PerfCap - PaidBonus(measure')
<1> HIDE DEF rest
<1>5. rest \in Int /\ perfOrder' = [perfOrder EXCEPT !.unused = rest, !.ask = Null]
    BY <1>2, <1>4 DEF rest
<1>6. /\ perfOrder' \in PerfOrderRows /\ perfOrder'.unused = rest /\ perfOrder'.status = perfOrder.status
      /\ perfOrder'.before = perfOrder.before /\ perfOrder'.payment = perfOrder.payment
    BY <1>1, <1>5 DEF PerfOrderRows
<1>7. Decided(measure') /\ published # 0
    BY <1>3, Unjudged DEF Decided
<1>8. SplitFits(measure', perfOrder', published')
    BY <1>1, <1>3, <1>6, <1>7 DEF SplitFits, rest
<1>9. PerfFits(measure', perfOrder', perfOps, published')
    BY <1>6, <1>8, JudgeStep
<1> QED
    BY <1>3, <1>6, <1>7, <1>9

LEMMA HeldKeeps == ASSUME PerfInv, NEW d \in {"APPROVE", "REJECT"}, DecideHeldBonus(d) PROVE PerfInv'
<1> DEFINE s == IF d = "APPROVE" THEN "APPROVED" ELSE "REJECTED"
<1>1. s \in {"APPROVED", "REJECTED"} /\ measure.status = "HELD" /\ RecordSplit(s) /\ UNCHANGED <<perfOps, published>>
    BY DEF DecideHeldBonus
<1> HIDE DEF s
<1> QED
    BY <1>1, SplitRecorded DEF PerfInv, PerfTypes

\* A refund call on a judged or cancelled order leaves every release alone and asks for the amount the order states.
LEMMA RefundStep ==
    ASSUME PerfTypes, NEW m \in MeasureRows, NEW o \in PerfOrderRows, NEW n, PerfFits(m, o, perfOps, n),
           Decided(m) \/ o.status = "CANCELLED", NEW lost \in BOOLEAN, RequestRefund(o, lost)
    PROVE  perfOps' \in [RefundOps \cup ReleaseOps -> PerfOpRows] /\ PerfFits(m, o, perfOps', n)
<1> DEFINE op == RefundOp(o)
           sum == RefundSum(o)
<1>1. SplitFits(m, o, n) /\ WorkFits(o, n) /\ RefundFits(m, o, perfOps) /\ ReleaseFits(m, o, perfOps)
    BY DEF PerfFits
<1>2. \/ op = "performance" /\ sum = o.unused /\ Decided(m)
      \/ op \in {"agreed", "full"} /\ o.status = "CANCELLED"
  <2>1. CASE o.status = "CANCELLED"
      BY <2>1, RefundGoes
  <2>2. CASE o.status # "CANCELLED"
    <3>1. PerfCap \in Nat /\ Decided(m) /\ o.unused = PerfCap - PaidBonus(m) /\ m.bonus <= PerfCap /\ m.bonus \in Int
        BY <1>1, <2>2, PerfAssumption DEF SplitFits, MeasureRows
    <3>2. o.unused # Null
        BY <3>1 DEF PaidBonus, Null
    <3> QED
        BY <2>2, <3>1, <3>2, RefundGoes
  <2> QED
      BY <2>1, <2>2
<1>3. op \in RefundOps /\ sum \in Int /\ Call(op, sum, lost)
    BY RefundGoes DEF RequestRefund
<1> HIDE DEF op, sum
<1>4. op \in RefundOps \cup ReleaseOps
    BY <1>3
<1>5. /\ perfOps' \in [RefundOps \cup ReleaseOps -> PerfOpRows] /\ perfOps'[op].amount = sum
      /\ \A x \in RefundOps \cup ReleaseOps : x # op => perfOps'[x] = perfOps[x]
    BY <1>3, <1>4, CallStep
<1>6. \A x \in ReleaseOps : perfOps'[x] = perfOps[x]
    BY <1>3, <1>5 DEF RefundOps, ReleaseOps
<1>7. ReleaseFits(m, o, perfOps')
  <2>1. \A x \in ReleaseOps : perfOps'[x].state = perfOps[x].state /\ perfOps'[x].amount = perfOps[x].amount
      BY <1>6
  <2> QED
      BY <1>1, <2>1 DEF ReleaseFits
<1>8. RefundFits(m, o, perfOps')
  <2>1. \A x \in RefundOps : x \in RefundOps \cup ReleaseOps /\ (x # op => perfOps'[x] = perfOps[x])
      BY <1>5
  <2>2. CASE op = "performance" /\ sum = o.unused /\ Decided(m)
      BY <1>1, <1>5, <2>1, <2>2 DEF RefundFits, RefundOps
  <2>3. CASE op \in {"agreed", "full"} /\ o.status = "CANCELLED"
      BY <1>1, <2>1, <2>3 DEF RefundFits, RefundOps
  <2> QED
      BY <1>2, <2>2, <2>3
<1> QED
    BY <1>1, <1>5, <1>7, <1>8 DEF PerfFits

LEMMA SettleKeeps == ASSUME PerfInv, NEW lost \in BOOLEAN, SettleBonus(lost) PROVE PerfInv'
<1>1. published' = published /\ (perfOps' = perfOps \/ RequestRefund(perfOrder', lost))
    BY DEF SettleBonus
<1>2. PerfTypes /\ PerfFits(measure, perfOrder, perfOps, published)
    BY DEF PerfInv
<1>3. /\ measure' \in MeasureRows /\ perfOrder' \in PerfOrderRows /\ Decided(measure')
      /\ PerfFits(measure', perfOrder', perfOps, published')
  <2>1. CASE measure.status = "MEASURED" /\ RecordSplit("APPROVED")
      BY <1>1, <2>1, SplitRecorded
  <2>2. CASE measure.status \in {"APPROVED", "REJECTED"} /\ UNCHANGED <<measure, perfOrder>>
      BY <1>1, <1>2, <2>2 DEF PerfTypes, Decided
  <2> QED
      BY <2>1, <2>2 DEF SettleBonus
<1>4. CASE perfOps' = perfOps
    BY <1>1, <1>2, <1>3, <1>4 DEF PerfInv, PerfTypes
<1>5. CASE RequestRefund(perfOrder', lost)
  <2> DEFINE m == measure'
             o == perfOrder'
             n == published'
  <2> HIDE DEF m, o, n
  <2>1. PerfTypes /\ m \in MeasureRows /\ o \in PerfOrderRows /\ Decided(m) /\ PerfFits(m, o, perfOps, n) /\ RequestRefund(o, lost)
      BY <1>2, <1>3, <1>5 DEF m, o, n
  <2>2. perfOps' \in [RefundOps \cup ReleaseOps -> PerfOpRows] /\ PerfFits(m, o, perfOps', n)
      BY <2>1, RefundStep
  <2> QED
      BY <1>1, <1>2, <1>3, <2>2 DEF PerfInv, PerfTypes, m, o, n
<1> QED
    BY <1>1, <1>4, <1>5

LEMMA RetryRefundKeeps ==
    ASSUME PerfInv, NEW lost \in BOOLEAN, perfOrder.payment = "REFUND_PENDING", RequestRefund(perfOrder, lost), UNCHANGED <<measure, perfOrder, published>>
    PROVE  PerfInv'
<1>1. /\ PerfTypes /\ PerfFits(measure, perfOrder, perfOps, published) /\ measure \in MeasureRows
      /\ perfOrder \in PerfOrderRows /\ perfOrder.status = "CANCELLED"
    BY DEF PerfInv, PerfTypes, PerfFits, WorkFits
<1>2. perfOps' \in [RefundOps \cup ReleaseOps -> PerfOpRows] /\ PerfFits(measure, perfOrder, perfOps', published)
    BY <1>1, RefundStep
<1> QED
    BY <1>1, <1>2 DEF PerfInv, PerfTypes

\* The release of a releasable order is the only release it ever asks for.
LEMMA ReleaseKeeps ==
    ASSUME PerfInv, NEW lost \in BOOLEAN, Releasable(measure, perfOrder), PerfRelease(lost)
    PROVE  PerfInv'
<1> DEFINE op == ReleaseOp(perfOrder)
           sum == MaxPayout - Withheld(perfOrder)
<1>1. /\ PerfTypes /\ perfOrder \in PerfOrderRows /\ SplitFits(measure, perfOrder, published) /\ WorkFits(perfOrder, published)
      /\ RefundFits(measure, perfOrder, perfOps) /\ ReleaseFits(measure, perfOrder, perfOps)
    BY DEF PerfInv, PerfTypes, PerfFits
<1>2. op \in ReleaseOps /\ sum \in Int /\ Call(op, sum, lost) /\ UNCHANGED <<measure, published>>
    BY <1>1, ReleaseGoes DEF PerfRelease
<1>3. perfOrder' = perfOrder \/ perfOrder' = [perfOrder EXCEPT !.settlement = "PENDING"]
    BY DEF PerfRelease
<1>4. /\ perfOrder' \in PerfOrderRows /\ perfOrder'.status = perfOrder.status /\ perfOrder'.unused = perfOrder.unused
      /\ perfOrder'.agreed = perfOrder.agreed /\ perfOrder'.payment = perfOrder.payment /\ perfOrder'.before = perfOrder.before
    BY <1>1, <1>3 DEF PerfOrderRows
<1>5. ReleaseOp(perfOrder') = op /\ MaxPayout - Withheld(perfOrder') = sum /\ Releasable(measure', perfOrder')
    BY <1>2, <1>4 DEF ReleaseOp, Withheld, UnusedHold, Releasable
<1>6. \A x \in ReleaseOps : perfOps[x].state # "NONE" => x = op
    BY <1>1 DEF ReleaseFits
<1> HIDE DEF op, sum
<1>7. op \in RefundOps \cup ReleaseOps
    BY <1>2
<1>8. /\ perfOps' \in [RefundOps \cup ReleaseOps -> PerfOpRows] /\ perfOps'[op].amount = sum
      /\ \A x \in RefundOps \cup ReleaseOps : x # op => perfOps'[x] = perfOps[x]
      /\ \A x \in RefundOps \cup ReleaseOps : perfOps[x].state = "CONFIRMED" => perfOps'[x] = perfOps[x]
    BY <1>1, <1>2, <1>7, CallStep
<1>9. SplitFits(measure', perfOrder', published') /\ WorkFits(perfOrder', published')
    BY <1>1, <1>2, <1>4 DEF SplitFits, WorkFits
<1>10. RefundFits(measure', perfOrder', perfOps')
  <2>1. \A x \in RefundOps : perfOps'[x] = perfOps[x]
      BY <1>2, <1>8 DEF RefundOps, ReleaseOps
  <2> QED
      BY <1>1, <1>2, <1>4, <2>1 DEF RefundFits, RefundOps
<1>11. ReleaseFits(measure', perfOrder', perfOps')
  <2>1. \A x \in ReleaseOps : perfOps'[x].state # "NONE" => x = op /\ perfOps'[x].amount = sum
      BY <1>6, <1>8
  <2>2. perfOrder'.status = "COMPLETED" => \E x \in ReleaseOps : perfOps'[x].state = "CONFIRMED"
    <3>1. perfOrder'.status = "COMPLETED" => \E x \in ReleaseOps : perfOps[x].state = "CONFIRMED"
        BY <1>1, <1>4 DEF ReleaseFits
    <3> QED
        BY <1>8, <3>1
  <2> QED
      BY <1>5, <2>1, <2>2 DEF ReleaseFits
<1> QED
    BY <1>1, <1>2, <1>4, <1>8, <1>9, <1>10, <1>11 DEF PerfInv, PerfTypes, PerfFits

LEMMA RetryKeeps == ASSUME PerfInv, NEW o \in RefundOps \cup ReleaseOps, NEW lost \in BOOLEAN, RetryPerf(o, lost) PROVE PerfInv'
<1>1. CASE o \in RefundOps /\ perfOrder.payment = "REFUND_PENDING" /\ RequestRefund(perfOrder, lost) /\ UNCHANGED <<measure, perfOrder, published>>
    BY <1>1, RetryRefundKeeps
<1>2. CASE o \in ReleaseOps /\ perfOps[o].state = "RETRY" /\ PerfRelease(lost)
  <2>1. Releasable(measure, perfOrder)
      BY <1>2 DEF PerfInv, PerfFits, ReleaseFits
  <2> QED
      BY <1>2, <2>1, ReleaseKeeps
<1> QED
    BY <1>1, <1>2 DEF RetryPerf

LEMMA ReadyKeeps == ASSUME PerfInv, NEW lost \in BOOLEAN, ReleaseReadyPerf(lost) PROVE PerfInv'
<1>1. Releasable(measure, perfOrder) /\ PerfRelease(lost)
    BY DEF ReleaseReadyPerf, PerfReady, Releasable
<1> QED
    BY <1>1, ReleaseKeeps

\* The provider confirms an accepted operation: nothing new is asked for, and amounts stay.
LEMMA ConfirmStep ==
    ASSUME PerfTypes, NEW o \in RefundOps \cup ReleaseOps, perfOps[o].state = "ACCEPTED",
           perfOps' = [perfOps EXCEPT ![o].state = "CONFIRMED"]
    PROVE  /\ perfOps' \in [RefundOps \cup ReleaseOps -> PerfOpRows] /\ perfOps'[o].state = "CONFIRMED"
           /\ \A x \in RefundOps \cup ReleaseOps :
                /\ perfOps'[x].amount = perfOps[x].amount /\ (perfOps'[x].state = "NONE" <=> perfOps[x].state = "NONE")
                /\ perfOps[x].state = "CONFIRMED" => perfOps'[x].state = "CONFIRMED"
<1>1. perfOps \in [RefundOps \cup ReleaseOps -> PerfOpRows]
    BY DEF PerfTypes
<1> DEFINE row == [perfOps[o] EXCEPT !.state = "CONFIRMED"]
<1>2. perfOps' = [perfOps EXCEPT ![o] = row]
    OBVIOUS
<1>3. row \in PerfOpRows /\ row.state = "CONFIRMED" /\ row.amount = perfOps[o].amount
    BY <1>1 DEF PerfOpRows
<1> HIDE DEF row
<1> QED
    BY <1>1, <1>2, <1>3

\* A provider's fact moves the order to its next status: the split, and what the order asks for, stay.
LEMMA FactStep ==
    ASSUME PerfInv, NEW o \in RefundOps \cup ReleaseOps, perfOps[o].state = "ACCEPTED", UNCHANGED <<measure, published>>,
           perfOps' = [perfOps EXCEPT ![o].state = "CONFIRMED"], perfOrder' \in PerfOrderRows,
           perfOrder'.unused = perfOrder.unused, perfOrder'.agreed = perfOrder.agreed, perfOrder'.before = perfOrder.before,
           \/ perfOrder'.status = perfOrder.status
           \/ perfOrder.status = "APPROVED" /\ perfOrder'.status = "COMPLETED" /\ o \in ReleaseOps
           \/ perfOrder.status \in {"CANCELLED", "REFUNDED"} /\ perfOrder'.status = "REFUNDED" /\ perfOrder.agreed \in {Null, MaxPayout},
           perfOrder'.payment = "REFUND_PENDING" => perfOrder.payment = "REFUND_PENDING" /\ perfOrder'.status = perfOrder.status
    PROVE  PerfInv'
<1>1. /\ PerfTypes /\ SplitFits(measure, perfOrder, published) /\ WorkFits(perfOrder, published)
      /\ RefundFits(measure, perfOrder, perfOps) /\ ReleaseFits(measure, perfOrder, perfOps)
    BY DEF PerfInv, PerfFits
<1>2. /\ perfOps' \in [RefundOps \cup ReleaseOps -> PerfOpRows] /\ perfOps'[o].state = "CONFIRMED"
      /\ \A x \in RefundOps \cup ReleaseOps :
           /\ perfOps'[x].amount = perfOps[x].amount /\ (perfOps'[x].state = "NONE" <=> perfOps[x].state = "NONE")
           /\ perfOps[x].state = "CONFIRMED" => perfOps'[x].state = "CONFIRMED"
    BY <1>1, ConfirmStep
<1>3. SplitFits(measure', perfOrder', published') /\ WorkFits(perfOrder', published')
    BY <1>1 DEF SplitFits, WorkFits
<1>4. RefundFits(measure', perfOrder', perfOps')
  <2>1. \A x \in RefundOps : perfOps'[x].amount = perfOps[x].amount /\ (perfOps'[x].state = "NONE" <=> perfOps[x].state = "NONE")
      BY <1>2
  <2>2. perfOrder.status \in {"CANCELLED", "REFUNDED"} => perfOrder'.status \in {"CANCELLED", "REFUNDED"}
      OBVIOUS
  <2> QED
      BY <1>1, <2>1, <2>2 DEF RefundFits, RefundOps
<1>5. ReleaseFits(measure', perfOrder', perfOps')
  <2>1. \A x \in ReleaseOps : /\ perfOps'[x].amount = perfOps[x].amount /\ (perfOps'[x].state = "NONE" <=> perfOps[x].state = "NONE")
                              /\ perfOps[x].state = "CONFIRMED" => perfOps'[x].state = "CONFIRMED"
      BY <1>2
  <2>2. perfOrder'.status = "COMPLETED" => \E x \in ReleaseOps : perfOps'[x].state = "CONFIRMED"
      BY <1>1, <1>2, <2>1 DEF ReleaseFits
  <2>3. CASE perfOrder.status = "CANCELLED" <=> perfOrder'.status = "CANCELLED"
    <3>1. ReleaseOp(perfOrder') = ReleaseOp(perfOrder) /\ Withheld(perfOrder') = Withheld(perfOrder)
        BY <2>3 DEF ReleaseOp, Withheld, UnusedHold
    <3>2. Releasable(measure, perfOrder) => Releasable(measure', perfOrder')
        BY <2>3 DEF Releasable, Null
    <3> QED
        BY <1>1, <2>1, <2>2, <3>1, <3>2 DEF ReleaseFits
  <2>4. CASE perfOrder.status = "CANCELLED" /\ perfOrder'.status = "REFUNDED" /\ perfOrder.agreed \in {Null, MaxPayout}
    <3>1. ~Releasable(measure, perfOrder)
        BY <2>4, PerfAssumption DEF Releasable, MaxPayout
    <3>2. \A x \in ReleaseOps : perfOps'[x].state = "NONE"
        BY <1>1, <2>1, <3>1 DEF ReleaseFits
    <3> QED
        BY <2>4, <3>2 DEF ReleaseFits
  <2> QED
      BY <2>3, <2>4
<1> QED
    BY <1>1, <1>2, <1>3, <1>4, <1>5 DEF PerfInv, PerfTypes, PerfFits

LEMMA ReleasedKeeps == ASSUME PerfInv, NEW o \in RefundOps \cup ReleaseOps, PerfReleased(o) PROVE PerfInv'
<1> DEFINE s == IF perfOrder.status = "APPROVED" THEN "COMPLETED" ELSE perfOrder.status
<1>1. perfOrder \in PerfOrderRows
    BY DEF PerfInv, PerfTypes
<1>2. /\ o \in ReleaseOps /\ perfOps[o].state = "ACCEPTED" /\ perfOps' = [perfOps EXCEPT ![o].state = "CONFIRMED"]
      /\ perfOrder' = perfOrder \/ perfOrder' = [perfOrder EXCEPT !.settlement = "RELEASED", !.status = s]
      /\ UNCHANGED <<measure, published>>
    BY <1>1 DEF PerfReleased, PerfOrderRows
<1>3. s \in {"IN_PROGRESS", "DELIVERED", "REVISION_REQUESTED", "DISPUTED", "APPROVED", "COMPLETED", "CANCELLED", "REFUNDED"}
      /\ (s = perfOrder.status \/ (perfOrder.status = "APPROVED" /\ s = "COMPLETED"))
    BY <1>1 DEF PerfOrderRows
<1> HIDE DEF s
<1>4. /\ perfOrder' \in PerfOrderRows /\ perfOrder'.unused = perfOrder.unused /\ perfOrder'.agreed = perfOrder.agreed
      /\ perfOrder'.before = perfOrder.before /\ perfOrder'.payment = perfOrder.payment /\ perfOrder'.status \in {s, perfOrder.status}
    BY <1>1, <1>2, <1>3 DEF PerfOrderRows
<1>5. perfOrder.payment = "REFUND_PENDING" => perfOrder.status = "CANCELLED"
    BY DEF PerfInv, PerfFits, WorkFits
<1> QED
    BY <1>2, <1>3, <1>4, <1>5, FactStep

LEMMA RefundedKeeps == ASSUME PerfInv, NEW o \in RefundOps \cup ReleaseOps, PerfRefunded(o) PROVE PerfInv'
<1> DEFINE k == IF o = "performance" THEN Null ELSE perfOrder.ask
<1>1. perfOrder \in PerfOrderRows /\ Null \in Int
    BY DEF PerfInv, PerfTypes, Null
<1>2. /\ o \in RefundOps /\ perfOps[o].state = "ACCEPTED" /\ perfOps' = [perfOps EXCEPT ![o].state = "CONFIRMED"]
      /\ UNCHANGED <<measure, published>>
    BY DEF PerfRefunded
<1>3. \/ perfOrder' = perfOrder
      \/ /\ o # "performance" /\ perfOrder.agreed \in {Null, MaxPayout}
         /\ perfOrder' = [perfOrder EXCEPT !.status = "REFUNDED", !.payment = "REFUNDED", !.settlement = "NOT_READY"]
      \/ perfOrder' = [perfOrder EXCEPT !.payment = "PARTIALLY_REFUNDED", !.ask = k]
    BY <1>1 DEF PerfRefunded, PerfOrderRows
<1>4. k \in Int
    BY <1>1 DEF PerfOrderRows
<1> HIDE DEF k
<1>5. CASE perfOrder' = perfOrder
    BY <1>1, <1>2, <1>5, FactStep
<1>6. CASE /\ o # "performance" /\ perfOrder.agreed \in {Null, MaxPayout}
           /\ perfOrder' = [perfOrder EXCEPT !.status = "REFUNDED", !.payment = "REFUNDED", !.settlement = "NOT_READY"]
  <2>1. perfOrder.status \in {"CANCELLED", "REFUNDED"}
      BY <1>2, <1>6 DEF PerfInv, PerfFits, RefundFits, RefundOps
  <2>2. /\ perfOrder' \in PerfOrderRows /\ perfOrder'.unused = perfOrder.unused /\ perfOrder'.agreed = perfOrder.agreed
        /\ perfOrder'.before = perfOrder.before /\ perfOrder'.payment = "REFUNDED" /\ perfOrder'.status = "REFUNDED"
      BY <1>1, <1>6 DEF PerfOrderRows
  <2> QED
      BY <1>2, <1>6, <2>1, <2>2, FactStep
<1>7. CASE perfOrder' = [perfOrder EXCEPT !.payment = "PARTIALLY_REFUNDED", !.ask = k]
  <2>1. /\ perfOrder' \in PerfOrderRows /\ perfOrder'.unused = perfOrder.unused /\ perfOrder'.agreed = perfOrder.agreed
        /\ perfOrder'.before = perfOrder.before /\ perfOrder'.payment = "PARTIALLY_REFUNDED" /\ perfOrder'.status = perfOrder.status
      BY <1>1, <1>4, <1>7 DEF PerfOrderRows
  <2> QED
      BY <1>2, <2>1, FactStep
<1> QED
    BY <1>3, <1>5, <1>6, <1>7

LEMMA PerfNextKeeps == PerfInv /\ [PerfNext]_perfVars => PerfInv'
<1> SUFFICES ASSUME PerfInv, [PerfNext]_perfVars PROVE PerfInv'
    OBVIOUS
<1>1. CASE UNCHANGED perfVars
    BY <1>1 DEF perfVars, PerfInv, PerfTypes, PerfFits, SplitFits, WorkFits, RefundFits, ReleaseFits
<1>2. CASE PerfNext
  <2>1. DOMAIN perfOps = RefundOps \cup ReleaseOps
      BY DEF PerfInv, PerfTypes
  <2>2. \A refund \in {0, PerfFee, MaxPayout} : refund \in Int
      BY PerfAssumption DEF MaxPayout
  <2>3. ASSUME PerfApprove PROVE PerfInv'
    <3>1. perfOrder.status = "DELIVERED" /\ perfOrder' = Approved(perfOrder) /\ UNCHANGED <<measure, perfOps, published>>
        BY <2>3 DEF PerfApprove
    <3>2. published > 0
        BY <3>1 DEF PerfInv, PerfFits, WorkFits
    <3> QED
        BY <3>1, <3>2, ApproveKeeps
  <2>4. ASSUME NEW proof \in Proofs, Publish(proof) PROVE PerfInv'
      BY <2>4, PublishKeeps
  <2>5. ASSUME NEW lost \in BOOLEAN, NEW outcome \in {"RESUME", "APPROVE", "REFUND_FULL"}, DecideDispute(outcome, lost) PROVE PerfInv'
      BY <2>5, DecideKeeps
  <2>6. ASSUME NEW lost \in BOOLEAN, AgreeCancellation(lost) \/ SettleBonus(lost) \/ ReleaseReadyPerf(lost) PROVE PerfInv'
      BY <2>6, AgreeKeeps, SettleKeeps, ReadyKeeps
  <2>7. ASSUME NEW lost \in BOOLEAN, NEW o \in DOMAIN perfOps, RetryPerf(o, lost) PROVE PerfInv'
      BY <2>1, <2>7, RetryKeeps
  <2>8. ASSUME NEW refund \in {0, PerfFee, MaxPayout}, AskCancellation(refund) PROVE PerfInv'
      BY <2>2, <2>8, AskKeeps
  <2>9. ASSUME NEW v \in Views, NEW low \in BOOLEAN, MeasurePost(v, low) PROVE PerfInv'
      BY <2>9, MeasureKeeps
  <2>10. ASSUME NEW d \in {"APPROVE", "REJECT"}, DecideHeldBonus(d) PROVE PerfInv'
      BY <2>10, HeldKeeps
  <2>11. ASSUME NEW o \in DOMAIN perfOps, PerfRefunded(o) \/ PerfReleased(o) PROVE PerfInv'
      BY <2>1, <2>11, RefundedKeeps, ReleasedKeeps
  <2> QED
      BY <1>2, <2>3, <2>4, <2>5, <2>6, <2>7, <2>8, <2>9, <2>10, <2>11, RevisionKeeps, DisputeKeeps, PassesKeeps DEF PerfNext
<1> QED
    BY <1>1, <1>2

LEMMA PerfInvSplits == PerfInv => BonusSplit
<1> SUFFICES ASSUME PerfInv PROVE BonusSplit
    OBVIOUS
<1>1. /\ perfOps \in [RefundOps \cup ReleaseOps -> PerfOpRows] /\ measure \in MeasureRows
      /\ SplitFits(measure, perfOrder, published) /\ WorkFits(perfOrder, published)
      /\ RefundFits(measure, perfOrder, perfOps) /\ ReleaseFits(measure, perfOrder, perfOps)
    BY DEF PerfInv, PerfFits, PerfTypes
<1>2. Cardinality({o \in ReleaseOps : AtProvider(o)}) <= 1
  <2> DEFINE asked == {o \in ReleaseOps : AtProvider(o)}
             one == ReleaseOp(perfOrder)
  <2>1. \A x \in asked : x = one
      BY <1>1 DEF ReleaseFits, AtProvider
  <2> HIDE DEF one
  <2>2. asked \subseteq {one}
      BY <2>1
  <2> HIDE DEF asked
  <2>3. IsFiniteSet({one}) /\ Cardinality({one}) = 1
      BY FS_Singleton
  <2>4. Cardinality(asked) <= Cardinality({one})
      BY <2>2, <2>3, FS_Subset
  <2>5. IsFiniteSet(asked)
      BY <2>2, <2>3, FS_Subset
  <2> QED
      BY <2>3, <2>4 DEF asked
<1>3. ASSUME perfOrder.status = "COMPLETED"
      PROVE  /\ measure.status \in {"APPROVED", "REJECTED"}
             /\ \E o \in ReleaseOps : perfOps[o] = [amount |-> PerfFee + PaidBonus(measure), state |-> "CONFIRMED"]
             /\ \A o \in RefundOps : AtProvider(o) => o = "performance" /\ perfOps[o].amount = PerfCap - PaidBonus(measure)
  <2>1. PICK x \in ReleaseOps : perfOps[x].state = "CONFIRMED"
      BY <1>1, <1>3 DEF ReleaseFits
  <2>2. perfOps[x].amount = MaxPayout - Withheld(perfOrder) /\ measure.status \notin {"SCHEDULED", "MEASURED", "HELD"}
      BY <1>1, <2>1 DEF ReleaseFits, Releasable
  <2>3. measure.status # "NONE"
      BY <1>1, <1>3 DEF SplitFits, WorkFits
  <2>4. Decided(measure)
      BY <1>1, <2>2, <2>3 DEF MeasureRows, Decided
  <2>5. perfOrder.unused = PerfCap - PaidBonus(measure) /\ measure.bonus <= PerfCap
      BY <1>1, <2>4 DEF SplitFits
  <2>6. PerfCap \in Nat /\ PerfFee \in Nat /\ PaidBonus(measure) \in Int /\ PaidBonus(measure) <= PerfCap
      BY <1>1, <2>5, PerfAssumption DEF PaidBonus, MeasureRows
  <2>7. Withheld(perfOrder) = PerfCap - PaidBonus(measure)
      BY <1>3, <2>5, <2>6 DEF Withheld, Null
  <2>8. perfOps[x].amount = PerfFee + PaidBonus(measure)
      BY <2>2, <2>6, <2>7 DEF MaxPayout
  <2>9. perfOps[x] = [amount |-> PerfFee + PaidBonus(measure), state |-> "CONFIRMED"]
    <3>1. perfOps[x] \in PerfOpRows
        BY <1>1, <2>1
    <3> QED
        BY <2>1, <2>8, <3>1 DEF PerfOpRows
  <2>10. \A o \in RefundOps : AtProvider(o) => o = "performance" /\ perfOps[o].amount = PerfCap - PaidBonus(measure)
      BY <1>1, <1>3, <2>5 DEF RefundFits, RefundOps, AtProvider
  <2> QED
      BY <2>1, <2>4, <2>9, <2>10 DEF Decided
<1> QED
    BY <1>2, <1>3 DEF BonusSplit

\* The hold of a performance hire is split as the post was judged (src/modules/publish, funding.ts): for every baseline, rate, fee
\* and cap, and whatever mix of deliveries, disputes, operator decisions, lost calls and provider answers, a completed order
\* paid its creator exactly the fee and the decided bonus, the buyer was sent no more than the unused rest, and one release was made.
THEOREM HoldSplitAsJudged == PerfSpec => []BonusSplit
<1>1. PerfSpec => []PerfInv
    BY PerfInitHolds, PerfNextKeeps, PTL DEF PerfSpec
<1> QED
    BY <1>1, PerfInvSplits, PTL

-----------------------------------------------------------------------------
(* Discovery lists *)

DiscoverySpec == DiscoveryInit /\ [][DiscoveryNext]_discoveryVars

Pairs == Int \X Int
Sorts == [keys : {"asc", "desc"}, id : {"asc", "desc"}, time : BOOLEAN]
ShelfRows == [listed : BOOLEAN, accepting : BOOLEAN, keys : KeysOf(list)]

\* Where row i stands in the sort of the walk.
Place(i) == KeysFor(walk.sort, shelf[i].keys)
Shown(i) == \E n \in DOMAIN walk.shown : walk.shown[n] = i

Reading ==
    /\ walk \in [sort : DOMAIN Sorting[list], available : BOOLEAN, limit : Nat \ {0}, over : BOOLEAN, shown : Seq(Rows),
                 cursor : {NoCursor} \cup [sort : {walk.sort}, keys : Pairs, id : Rows], cuts : SUBSET Pairs]
    /\ walk.sort # "none"

\* A row is shown once; until the walk is over the rows behind the cursor have been shown and the ones before it have not.
RowFits(i) ==
    /\ \A m, n \in DOMAIN walk.shown : walk.shown[m] = i /\ walk.shown[n] = i => m = n
    /\ ~walk.over => (Shown(i) => ~AfterCursor(i))
    /\ InList(i) /\ ~InCutMillisecond(i) => Shown(i) \/ (~walk.over /\ AfterCursor(i))

DiscoveryTypes == list \in DOMAIN Sorting /\ shelf \in [Rows -> ShelfRows] /\ touched \subseteq Rows
DiscoveryInv == DiscoveryTypes /\ (walk = NotSearching \/ (Reading /\ \A i \in Rows \ touched : RowFits(i)))

-----------------------------------------------------------------------------
(* The order of a list *)

LEMMA SortsAreOrders ==
    ASSUME NEW by \in Sorts, NEW a \in Pairs, NEW b \in Pairs, NEW c \in Pairs, NEW i \in Int, NEW j \in Int, NEW k \in Int
    PROVE  /\ ~Precedes(by, a, i, a, i)
           /\ Precedes(by, a, i, b, j) /\ Precedes(by, b, j, c, k) => Precedes(by, a, i, c, k)
           /\ i # j => Precedes(by, a, i, b, j) \/ Precedes(by, b, j, a, i)
<1>1. PICK a1, a2, b1, b2, c1, c2 \in Int : a = <<a1, a2>> /\ b = <<b1, b2>> /\ c = <<c1, c2>>
    BY DEF Pairs
<1>2. \A x1, x2, y1, y2 \in Int : /\ Less(<<x1, x2>>, <<y1, y2>>) <=> x1 < y1 \/ (x1 = y1 /\ x2 < y2)
                                  /\ <<x1, x2>> = <<y1, y2>> <=> x1 = y1 /\ x2 = y2
    BY DEF Less
<1>3. /\ Less(a, b) <=> a1 < b1 \/ (a1 = b1 /\ a2 < b2)
      /\ Less(b, a) <=> b1 < a1 \/ (a1 = b1 /\ b2 < a2)
      /\ Less(b, c) <=> b1 < c1 \/ (b1 = c1 /\ b2 < c2)
      /\ Less(c, b) <=> c1 < b1 \/ (b1 = c1 /\ c2 < b2)
      /\ Less(a, c) <=> a1 < c1 \/ (a1 = c1 /\ a2 < c2)
      /\ Less(c, a) <=> c1 < a1 \/ (a1 = c1 /\ c2 < a2)
      /\ ~Less(a, a) /\ (a = b <=> a1 = b1 /\ a2 = b2) /\ (b = c <=> b1 = c1 /\ b2 = c2) /\ (a = c <=> a1 = c1 /\ a2 = c2)
    BY <1>1, <1>2
<1> HIDE DEF Less
<1>4. ~Precedes(by, a, i, a, i)
    BY <1>3 DEF Precedes
<1>5. i # j => Precedes(by, a, i, b, j) \/ Precedes(by, b, j, a, i)
  <2>1. CASE by.keys = "asc"
      BY <1>3, <2>1 DEF Precedes
  <2>2. CASE by.keys # "asc"
      BY <1>3, <2>2 DEF Precedes
  <2> QED
      BY <2>1, <2>2
<1>6. ASSUME Precedes(by, a, i, b, j), Precedes(by, b, j, c, k) PROVE Precedes(by, a, i, c, k)
  <2>1. CASE by.keys = "asc" /\ by.id = "asc"
      BY <1>3, <1>6, <2>1 DEF Precedes
  <2>2. CASE by.keys = "asc" /\ by.id # "asc"
      BY <1>3, <1>6, <2>2 DEF Precedes
  <2>3. CASE by.keys # "asc" /\ by.id = "asc"
      BY <1>3, <1>6, <2>3 DEF Precedes
  <2>4. CASE by.keys # "asc" /\ by.id # "asc"
      BY <1>3, <1>6, <2>4 DEF Precedes
  <2> QED
      BY <2>1, <2>2, <2>3, <2>4
<1> QED
    BY <1>4, <1>5, <1>6

LEMMA SortTable ==
    ASSUME NEW l \in DOMAIN Sorting, NEW sort \in DOMAIN Sorting[l]
    PROVE  /\ Sorting[l][sort] \in Sorts /\ sort # "none"
           /\ Sorting[l][sort].time => \/ sort = "newest" /\ Sorting[l][sort].keys = "desc" /\ Sorting[l][sort].id = "desc"
                                       \/ l = "auctions" /\ sort = "ending_soon"
<1> DEFINE U(k, i, t) == [keys |-> k, id |-> i, time |-> t]
<1>1. /\ U("asc", "asc", FALSE) \in Sorts /\ U("asc", "asc", FALSE).time = FALSE
      /\ U("desc", "asc", FALSE) \in Sorts /\ U("desc", "asc", FALSE).time = FALSE
      /\ U("desc", "desc", FALSE) \in Sorts /\ U("desc", "desc", FALSE).time = FALSE
      /\ U("asc", "asc", TRUE) \in Sorts /\ U("asc", "asc", TRUE).time = TRUE
      /\ U("desc", "desc", TRUE) \in Sorts /\ U("desc", "desc", TRUE).keys = "desc" /\ U("desc", "desc", TRUE).id = "desc"
    BY DEF Sorts
<1>2. CASE l = "services"
  <2>1. Sorting[l] = SearchServices
      BY <1>2 DEF Sorting
  <2>2. DOMAIN SearchServices = {"relevance", "newest", "price_asc", "price_desc", "turnaround"}
      BY DEF SearchServices
  <2>3. SearchServices["relevance"] = U("desc", "asc", FALSE)
      BY DEF SearchServices
  <2>4. SearchServices["newest"] = U("desc", "desc", TRUE)
      BY DEF SearchServices
  <2>5. SearchServices["price_asc"] = U("asc", "asc", FALSE)
      BY DEF SearchServices
  <2>6. SearchServices["price_desc"] = U("desc", "desc", FALSE)
      BY DEF SearchServices
  <2>7. SearchServices["turnaround"] = U("asc", "asc", FALSE)
      BY DEF SearchServices
  <2> HIDE DEF U
  <2> QED
      BY <1>1, <1>2, <2>1, <2>2, <2>3, <2>4, <2>5, <2>6, <2>7
<1>3. CASE l = "creators"
  <2>1. Sorting[l] = SearchCreators
      BY <1>3 DEF Sorting
  <2>2. DOMAIN SearchCreators = {"relevance", "reputation", "newest"}
      BY DEF SearchCreators
  <2>3. SearchCreators["relevance"] = U("desc", "asc", FALSE)
      BY DEF SearchCreators
  <2>4. SearchCreators["reputation"] = U("desc", "desc", FALSE)
      BY DEF SearchCreators
  <2>5. SearchCreators["newest"] = U("desc", "desc", TRUE)
      BY DEF SearchCreators
  <2> HIDE DEF U
  <2> QED
      BY <1>1, <1>3, <2>1, <2>2, <2>3, <2>4, <2>5
<1>4. CASE l = "auctions"
  <2>1. Sorting[l] = EndingSoonAuctions
      BY <1>4 DEF Sorting
  <2>2. DOMAIN EndingSoonAuctions = {"ending_soon"}
      BY DEF EndingSoonAuctions
  <2>3. EndingSoonAuctions["ending_soon"] = U("asc", "asc", TRUE)
      BY DEF EndingSoonAuctions
  <2> HIDE DEF U
  <2> QED
      BY <1>1, <1>4, <2>1, <2>2, <2>3
<1>5. l \in {"services", "creators", "auctions"}
    BY DEF Sorting
<1> QED
    BY <1>2, <1>3, <1>4, <1>5

LEMMA Places ==
    ASSUME DiscoveryTypes, Reading
    PROVE  /\ \A i \in Rows : Place(i) \in Pairs /\ i \in Int
           /\ Sorting[list][walk.sort] \in Sorts /\ IsFiniteSet(Rows) /\ walk.limit \in Nat \ {0}
<1>1. \A k \in KeysOf(list) : k \in Pairs
    BY DiscoveryAssumption DEF KeysOf, Pairs
<1>2. \A k \in Pairs : KeysFor(walk.sort, k) \in Pairs
    BY DEF Pairs, KeysFor
<1>3. \A i \in Rows : shelf[i].keys \in KeysOf(list)
    BY DEF DiscoveryTypes, ShelfRows
<1>4. Sorting[list][walk.sort] \in Sorts
    BY SortTable DEF DiscoveryTypes, Reading
<1>5. walk.limit \in Nat \ {0}
    BY DEF Reading
<1> QED
    BY <1>1, <1>2, <1>3, <1>4, <1>5, DiscoveryAssumption DEF Place

\* The rows of a list are totally ordered.
LEMMA BeforeIsOrder ==
    ASSUME DiscoveryTypes, Reading, NEW i \in Rows, NEW j \in Rows, NEW k \in Rows
    PROVE  /\ ~Before(i, i)
           /\ Before(i, j) /\ Before(j, k) => Before(i, k)
           /\ i # j => Before(i, j) \/ Before(j, i)
BY Places, SortsAreOrders DEF Before, Place

\* The answer holds every matching row once, in the order of the list.
LEMMA Ranking ==
    ASSUME DiscoveryTypes, Reading
    PROVE  LET N == Cardinality(Matching)
           IN  /\ N \in Nat
               /\ \A n \in 1..N : RowAt(n) \in Matching
               /\ \A m, n \in 1..N : m < n => Before(RowAt(m), RowAt(n))
               /\ \A i \in Matching : \E n \in 1..N : i = RowAt(n)
<1> DEFINE M == Matching
           N == Cardinality(M)
           Ahead(i) == {j \in M : Before(j, i)}
           rank == [i \in M |-> Cardinality(Ahead(i)) + 1]
           T == {rank[i] : i \in M}
<1>1. M \subseteq Rows /\ IsFiniteSet(M) /\ N \in Nat
  <2>1. M \subseteq Rows
      BY DEF Matching
  <2> HIDE DEF M
  <2> QED
      BY <2>1, Places, FS_Subset, FS_CardinalityType
<1> HIDE DEF M
<1>2. \A i \in M : IsFiniteSet(Ahead(i)) /\ Cardinality(Ahead(i)) \in Nat
    BY <1>1, FS_Subset, FS_CardinalityType
<1>3. ASSUME NEW i \in M, NEW j \in M, Before(i, j) PROVE Cardinality(Ahead(i)) < Cardinality(Ahead(j))
  <2>1. Ahead(i) \subseteq Ahead(j) /\ i \in Ahead(j) /\ i \notin Ahead(i)
      BY <1>1, <1>3, BeforeIsOrder
  <2> HIDE DEF Ahead
  <2>2. Cardinality(Ahead(i)) <= Cardinality(Ahead(j)) /\ Cardinality(Ahead(i)) # Cardinality(Ahead(j))
      BY <1>2, <2>1, FS_Subset
  <2> QED
      BY <1>2, <2>2
<1>4. \A i \in M : rank[i] \in 1..N
  <2> SUFFICES ASSUME NEW i \in M PROVE rank[i] \in 1..N
      OBVIOUS
  <2>1. Ahead(i) \subseteq M /\ i \notin Ahead(i)
      BY <1>1, BeforeIsOrder
  <2>2. Cardinality(Ahead(i)) <= N /\ Cardinality(Ahead(i)) # N
    <3> HIDE DEF Ahead
    <3> QED
        BY <1>1, <2>1, FS_Subset
  <2> QED
      BY <1>1, <1>2, <2>2
<1>5. \A i, j \in M : (Before(i, j) => rank[i] < rank[j]) /\ (i # j => Before(i, j) \/ Before(j, i))
  <2> SUFFICES ASSUME NEW i \in M, NEW j \in M PROVE (Before(i, j) => rank[i] < rank[j]) /\ (i # j => Before(i, j) \/ Before(j, i))
      OBVIOUS
  <2>1. i # j => Before(i, j) \/ Before(j, i)
      BY <1>1, BeforeIsOrder
  <2>2. rank[i] = Cardinality(Ahead(i)) + 1 /\ rank[j] = Cardinality(Ahead(j)) + 1
      OBVIOUS
  <2> HIDE DEF Ahead, rank
  <2> QED
      BY <1>2, <1>3, <2>1, <2>2
<1>6. rank \in Surjection(M, T) /\ rank \in Injection(M, T)
  <2>1. rank \in [M -> T]
      OBVIOUS
  <2>2. \A i, j \in M : rank[i] = rank[j] => i = j
    <3> HIDE DEF rank
    <3> QED
        BY <1>4, <1>5
  <2> HIDE DEF rank
  <2> QED
      BY <2>1, <2>2 DEF Surjection, Injection, IsInjective
<1>7. T = 1..N
  <2>1. Cardinality(T) = N
    <3> HIDE DEF rank, T, N
    <3> QED
        BY <1>1, <1>6, FS_Surjection DEF N
  <2>2. T \subseteq 1..N
    <3> HIDE DEF rank
    <3> QED
        BY <1>4
  <2>3. IsFiniteSet(1..N) /\ Cardinality(1..N) = N
    <3> HIDE DEF N
    <3> QED
        BY <1>1, FS_Interval
  <2> HIDE DEF T, N
  <2> QED
      BY <2>1, <2>2, <2>3, FS_Subset
<1>8. \A n \in 1..N : RowAt(n) \in M /\ rank[RowAt(n)] = n
  <2> SUFFICES ASSUME NEW n \in 1..N PROVE RowAt(n) \in M /\ rank[RowAt(n)] = n
      OBVIOUS
  <2>1. PICK i \in M : rank[i] = n
    <3> HIDE DEF rank, N
    <3> QED
        BY <1>7
  <2>2. Cardinality(Ahead(i)) = n - 1
    <3>1. rank[i] = Cardinality(Ahead(i)) + 1
        OBVIOUS
    <3> HIDE DEF rank, Ahead, N
    <3> QED
        BY <1>2, <2>1, <3>1
  <2>3. RowAt(n) = CHOOSE x \in M : Cardinality(Ahead(x)) = n - 1
      BY DEF RowAt, M
  <2>4. RowAt(n) \in M /\ Cardinality(Ahead(RowAt(n))) = n - 1
    <3> HIDE DEF Ahead, N
    <3> QED
        BY <2>2, <2>3
  <2> QED
      BY <1>2, <2>4
<1>9. \A m, n \in 1..N : m < n => Before(RowAt(m), RowAt(n))
  <2> SUFFICES ASSUME NEW m \in 1..N, NEW n \in 1..N, m < n PROVE Before(RowAt(m), RowAt(n))
      OBVIOUS
  <2> DEFINE x == RowAt(m)
             y == RowAt(n)
  <2>1. x \in M /\ y \in M /\ rank[x] = m /\ rank[y] = n
      BY <1>8
  <2> HIDE DEF rank, x, y, N
  <2>2. Before(x, y)
      BY <1>5, <2>1
  <2> QED
      BY <2>2 DEF x, y
<1>10. \A i \in M : \E n \in 1..N : i = RowAt(n)
  <2> SUFFICES ASSUME NEW i \in M PROVE i = RowAt(rank[i]) /\ rank[i] \in 1..N
      OBVIOUS
  <2>1. rank[i] \in 1..N /\ RowAt(rank[i]) \in M /\ rank[RowAt(rank[i])] = rank[i]
      BY <1>4, <1>8
  <2> HIDE DEF rank, N
  <2> QED
      BY <1>6, <2>1 DEF Injection, IsInjective
<1> QED
    BY <1>1, <1>8, <1>9, <1>10 DEF M

\* Only a sort by publication time rounds its cursor, and down: what the cursor admits follows the row it was made from,
\* and what follows that row is admitted or lies in its millisecond.
LEMMA CursorFits ==
    ASSUME DiscoveryTypes, Reading, NEW x \in Rows, NEW i \in Rows
    PROVE  LET by == Sorting[list][walk.sort]
               cut == CursorKeys(list, walk.sort, shelf[x].keys)
           IN  /\ cut \in Pairs
               /\ Precedes(by, cut, x, Place(i), i) => Before(x, i)
               /\ Before(x, i) => \/ Precedes(by, cut, x, Place(i), i)
                                  \/ by.time /\ walk.sort = "newest" /\ CursorKeys(list, "newest", shelf[i].keys) = cut
<1> DEFINE by == Sorting[list][walk.sort]
           cut == CursorKeys(list, walk.sort, shelf[x].keys)
<1>1. list \in DOMAIN Sorting /\ walk.sort \in DOMAIN Sorting[list] /\ shelf[x].keys \in KeysOf(list) /\ shelf[i].keys \in KeysOf(list)
    BY DEF DiscoveryTypes, ShelfRows, Reading
<1>2. PICK x1, x2, i1, i2 \in Int : shelf[x].keys = <<x1, x2>> /\ shelf[i].keys = <<i1, i2>>
    BY <1>1, DiscoveryAssumption DEF KeysOf
<1>3. Before(x, i) <=> Precedes(by, Place(x), x, Place(i), i)
    BY DEF Before, Place
<1>4. CASE ~by.time
  <2>1. cut = Place(x)
      BY <1>4 DEF CursorKeys, Place
  <2> HIDE DEF by, cut
  <2> QED
      BY <1>3, <2>1, Places DEF by, cut
<1>5. CASE by.time /\ list = "auctions" /\ walk.sort = "ending_soon"
  <2>1. cut = Place(x)
      BY <1>1, <1>2, <1>5 DEF CursorKeys, Place, KeysFor, KeysOf
  <2> HIDE DEF by, cut
  <2> QED
      BY <1>3, <2>1, Places DEF by, cut
<1>6. CASE by.time /\ walk.sort = "newest" /\ by.keys = "desc" /\ by.id = "desc"
  <2> DEFINE m == x1 - (x1 % 2)
  <2>1. /\ cut = <<m, 0>> /\ Place(x) = <<x1, 0>> /\ Place(i) = <<i1, 0>> /\ Sorting[list]["newest"].time
        /\ CursorKeys(list, "newest", shelf[i].keys) = <<i1 - (i1 % 2), 0>>
      BY <1>2, <1>6 DEF CursorKeys, Place, KeysFor
  <2>2. m \in Int /\ m <= x1 /\ x1 <= m + 1 /\ (i1 \in m..x1 => i1 - (i1 % 2) = m)
      OBVIOUS
  <2>3. \A a, b, u, v \in Int : Precedes(by, <<a, 0>>, u, <<b, 0>>, v) <=> b < a \/ (a = b /\ u > v)
    <3> HIDE DEF by
    <3> QED
        BY <1>6 DEF Precedes, Less
  <2>4. x \in Int /\ i \in Int
      BY Places
  <2>5. /\ Precedes(by, cut, x, Place(i), i) <=> i1 < m \/ (m = i1 /\ x > i)
        /\ Before(x, i) <=> i1 < x1 \/ (x1 = i1 /\ x > i)
    <3> HIDE DEF by, cut, m
    <3> QED
        BY <1>3, <2>1, <2>2, <2>3, <2>4
  <2>6. cut \in Pairs
    <3> HIDE DEF m
    <3> QED
        BY <2>1, <2>2 DEF Pairs
  <2>7. Precedes(by, cut, x, Place(i), i) => Before(x, i)
    <3> HIDE DEF by, cut, m
    <3> QED
        BY <2>2, <2>4, <2>5
  <2>8. ASSUME Before(x, i), ~Precedes(by, cut, x, Place(i), i) PROVE CursorKeys(list, "newest", shelf[i].keys) = cut
    <3>1. i1 \in m..x1
      <4> HIDE DEF by, cut, m
      <4> QED
          BY <2>2, <2>5, <2>8
    <3> HIDE DEF by, m
    <3> QED
        BY <2>1, <2>2, <3>1
  <2> HIDE DEF by, cut
  <2> QED
      BY <1>6, <2>6, <2>7, <2>8 DEF by, cut
<1> QED
    BY <1>1, <1>4, <1>5, <1>6, SortTable

\* Rows after the cursor are the ones that follow the last row it was made from.
LEMMA CursorMoves ==
    ASSUME DiscoveryTypes, Reading, NEW x \in Rows, NEW i \in Rows, walk.cursor = NoCursor \/ AfterCursor(x), Before(x, i)
    PROVE  AfterCursor(i)
<1>1. CASE walk.cursor = NoCursor
    BY <1>1 DEF AfterCursor
<1>2. CASE walk.cursor # NoCursor
  <2>1. walk.cursor.keys \in Pairs /\ walk.cursor.id \in Int
      BY <1>2, DiscoveryAssumption DEF Reading
  <2>2. Precedes(Sorting[list][walk.sort], walk.cursor.keys, walk.cursor.id, Place(x), x)
      BY <1>2 DEF AfterCursor, Place
  <2>3. Precedes(Sorting[list][walk.sort], Place(x), x, Place(i), i)
      BY DEF Before, Place
  <2>4. Precedes(Sorting[list][walk.sort], walk.cursor.keys, walk.cursor.id, Place(i), i)
      BY <2>1, <2>2, <2>3, Places, SortsAreOrders
  <2> QED
      BY <2>4 DEF AfterCursor, Place
<1> QED
    BY <1>1, <1>2

-----------------------------------------------------------------------------
(* One page *)

\* What a page shows, and that its last row is the one the cursor is made from.
LEMMA PageRows ==
    ASSUME DiscoveryTypes, Reading, ReadPage
    PROVE  \E L \in Nat :
             LET N == Cardinality(Matching)
                 page == [n \in 1..L |-> RowAt(n)]
                 more == N > walk.limit
                 keys == CursorKeys(list, walk.sort, shelf[RowAt(L)].keys)
             IN  /\ L = (IF more THEN walk.limit ELSE N) /\ page \in Seq(Rows)
                 /\ more => L \in 1..N
                 /\ walk' = [walk EXCEPT !.shown = @ \o page, !.over = ~more,
                                         !.cursor = IF more THEN [sort |-> walk.sort, keys |-> keys, id |-> RowAt(L)] ELSE @,
                                         !.cuts = IF more /\ Sorting[list][walk.sort].time THEN @ \cup {keys} ELSE @]
                 /\ UNCHANGED <<list, shelf, touched>> /\ ~walk.over
<1> DEFINE N == Cardinality(Matching)
           more == N > walk.limit
           L == IF more THEN walk.limit ELSE N
           page == [n \in 1..L |-> RowAt(n)]
           read == IF Len(Fetched) > walk.limit THEN Front(Fetched) ELSE Fetched
<1>1. N \in Nat /\ walk.limit \in Nat \ {0} /\ \A n \in 1..N : RowAt(n) \in Rows
    BY Ranking, Places DEF Matching
<1>2. L \in Nat /\ L <= N /\ (more => L \in 1..N)
  <2> HIDE DEF N
  <2> QED
      BY <1>1
<1>3. page \in Seq(Rows) /\ Len(page) = L
  <2>1. \A n \in 1..L : n \in 1..N
    <3> HIDE DEF N, L
    <3> QED
        BY <1>1, <1>2
  <2>2. page \in [1..L -> Rows]
    <3> HIDE DEF N, L
    <3> QED
        BY <1>1, <2>1
  <2> HIDE DEF page, L
  <2> QED
      BY <1>2, <2>2
<1>4. Len(Fetched) > walk.limit <=> more
  <2>1. Fetched = [n \in 1..(IF N > walk.limit THEN walk.limit + 1 ELSE N) |-> RowAt(n)]
      BY DEF Fetched
  <2>2. Len(Fetched) = IF N > walk.limit THEN walk.limit + 1 ELSE N
    <3> HIDE DEF N
    <3> QED
        BY <1>1, <2>1
  <2> HIDE DEF N
  <2> QED
      BY <1>1, <2>2
<1>5. read = page
  <2>1. CASE more
    <3>1. Fetched = [n \in 1..(walk.limit + 1) |-> RowAt(n)]
        BY <2>1 DEF Fetched
    <3>2. Fetched \in Seq(Rows) /\ Len(Fetched) = walk.limit + 1
      <4>1. \A n \in 1..(walk.limit + 1) : n \in 1..N
        <5> HIDE DEF N
        <5> QED
            BY <1>1, <2>1
      <4>2. Fetched \in [1..(walk.limit + 1) -> Rows]
        <5> HIDE DEF N
        <5> QED
            BY <1>1, <3>1, <4>1
      <4> QED
          BY <1>1, <4>2
    <3>3. Front(Fetched) = [n \in 1..walk.limit |-> RowAt(n)]
      <4>1. SubSeq(Fetched, 1, walk.limit) = [n \in 1..walk.limit |-> Fetched[n]]
        <5>1. walk.limit + 1 - 1 = walk.limit
            BY <1>1
        <5> QED
            BY <1>1, <3>2
      <4>2. \A n \in 1..walk.limit : Fetched[n] = RowAt(n)
          BY <1>1, <3>1
      <4>3. Len(Fetched) - 1 = walk.limit
          BY <1>1, <3>2
      <4> QED
          BY <4>1, <4>2, <4>3 DEF Front
    <3> QED
        BY <1>4, <2>1, <3>3
  <2>2. CASE ~more
    <3>1. Fetched = [n \in 1..N |-> RowAt(n)]
        BY <2>2 DEF Fetched
    <3> QED
        BY <1>4, <2>2, <3>1
  <2> QED
      BY <2>1, <2>2
<1>6. more => Last(read) = RowAt(L)
  <2> SUFFICES ASSUME more PROVE Last(page) = RowAt(L)
      BY <1>5
  <2>1. L \in 1..L
    <3> HIDE DEF L, N
    <3> QED
        BY <1>2
  <2>2. Len(page) = L /\ page[L] = RowAt(L)
    <3> HIDE DEF L
    <3> QED
        BY <1>3, <2>1
  <2> HIDE DEF page, L
  <2> QED
      BY <2>2 DEF Last
<1>7. /\ walk' = [walk EXCEPT !.shown = @ \o page, !.over = ~more,
                              !.cursor = IF more THEN [sort |-> walk.sort, keys |-> CursorKeys(list, walk.sort, shelf[RowAt(L)].keys), id |-> RowAt(L)] ELSE @,
                              !.cuts = IF more /\ Sorting[list][walk.sort].time THEN @ \cup {CursorKeys(list, walk.sort, shelf[RowAt(L)].keys)} ELSE @]
      /\ UNCHANGED <<list, shelf, touched>> /\ ~walk.over
  <2> DEFINE keys(r) == CursorKeys(list, walk.sort, shelf[r].keys)
  <2>1. /\ walk' = [walk EXCEPT !.shown = @ \o read, !.over = ~(Len(Fetched) > walk.limit),
                       !.cursor = IF Len(Fetched) > walk.limit THEN [sort |-> walk.sort, keys |-> keys(Last(read)), id |-> Last(read)] ELSE @,
                       !.cuts = IF (Len(Fetched) > walk.limit) /\ Sorting[list][walk.sort].time THEN @ \cup {keys(Last(read))} ELSE @]
        /\ UNCHANGED <<list, shelf, touched>> /\ ~walk.over
      BY DEF ReadPage
  <2> HIDE DEF read, page, L, more
  <2>2. CASE more
      BY <1>4, <1>5, <1>6, <2>1, <2>2
  <2>3. CASE ~more
      BY <1>4, <1>5, <2>1, <2>3
  <2> QED
      BY <2>2, <2>3
<1>8. L = IF more THEN walk.limit ELSE N
    OBVIOUS
<1> HIDE DEF L, more, N
<1> QED
    BY <1>2, <1>3, <1>7, <1>8 DEF more, N

LEMMA PageKeeps ==
    ASSUME DiscoveryInv, ReadPage
    PROVE  DiscoveryInv'
<1>1. DiscoveryTypes /\ Reading /\ \A i \in Rows \ touched : RowFits(i)
    BY DEF DiscoveryInv, ReadPage
<1> DEFINE by == Sorting[list][walk.sort]
           N == Cardinality(Matching)
           more == N > walk.limit
<1>2. PICK L \in Nat :
             LET page == [n \in 1..L |-> RowAt(n)]
                 keys == CursorKeys(list, walk.sort, shelf[RowAt(L)].keys)
             IN  /\ L = (IF more THEN walk.limit ELSE N) /\ page \in Seq(Rows)
                 /\ more => L \in 1..N
                 /\ walk' = [walk EXCEPT !.shown = @ \o page, !.over = ~more,
                                         !.cursor = IF more THEN [sort |-> walk.sort, keys |-> keys, id |-> RowAt(L)] ELSE @,
                                         !.cuts = IF more /\ by.time THEN @ \cup {keys} ELSE @]
                 /\ UNCHANGED <<list, shelf, touched>> /\ ~walk.over
    BY <1>1, PageRows
<1> DEFINE page == [n \in 1..L |-> RowAt(n)]
           last == RowAt(L)
           keys == CursorKeys(list, walk.sort, shelf[last].keys)
<1>3. /\ N \in Nat /\ (\A n \in 1..N : RowAt(n) \in Matching) /\ (\A m, n \in 1..N : m < n => Before(RowAt(m), RowAt(n)))
      /\ (\A i \in Matching : \E n \in 1..N : i = RowAt(n)) /\ walk.limit \in Nat /\ by \in Sorts
    BY <1>1, Ranking, Places
<1>4. /\ walk'.shown = walk.shown \o page /\ walk'.over = ~more /\ walk'.sort = walk.sort /\ walk'.available = walk.available
      /\ walk'.limit = walk.limit
      /\ walk'.cursor = IF more THEN [sort |-> walk.sort, keys |-> keys, id |-> last] ELSE walk.cursor
      /\ walk'.cuts = IF more /\ by.time THEN walk.cuts \cup {keys} ELSE walk.cuts
      /\ UNCHANGED <<list, shelf, touched>> /\ ~walk.over
  <2> HIDE DEF more, page, keys, last
  <2> QED
      BY <1>1, <1>2 DEF Reading, page, keys, last
<1>5. /\ (more => L \in 1..N) /\ L <= N /\ (~more => L = N) /\ (\A n \in 1..L : n \in 1..N)
      /\ page \in Seq(Rows) /\ Len(page) = L /\ \A n \in 1..L : page[n] = RowAt(n)
  <2> HIDE DEF N
  <2> QED
      BY <1>2, <1>3
<1>6. more => last \in Rows /\ last \in Matching /\ keys \in Pairs
    BY <1>1, <1>3, <1>5, CursorFits DEF Matching
<1>7. DiscoveryTypes'
    BY <1>1, <1>4 DEF DiscoveryTypes, ShelfRows
<1>8. Reading'
  <2>1. walk'.shown \in Seq(Rows) /\ walk.shown \in Seq(Rows)
    <3> HIDE DEF page
    <3> QED
        BY <1>1, <1>4, <1>5 DEF Reading
  <2>2. walk'.cursor \in {NoCursor} \cup [sort : {walk.sort}, keys : Pairs, id : Rows]
    <3> HIDE DEF keys, last, more
    <3> QED
        BY <1>1, <1>4, <1>6 DEF Reading
  <2>3. walk'.cuts \in SUBSET Pairs
    <3> HIDE DEF keys, more, by
    <3> QED
        BY <1>1, <1>4, <1>6 DEF Reading
  <2>4. walk'.over \in BOOLEAN
      BY <1>4
  <2>5. walk' \in [sort : DOMAIN Sorting[list], available : BOOLEAN, limit : Nat \ {0}, over : BOOLEAN, shown : Seq(Rows),
                   cursor : {NoCursor} \cup [sort : {walk.sort}, keys : Pairs, id : Rows], cuts : SUBSET Pairs]
    <3> DEFINE P == [sort : DOMAIN Sorting[list], available : BOOLEAN, limit : Nat \ {0}, over : BOOLEAN, shown : Seq(Rows),
                     cursor : {NoCursor} \cup [sort : {walk.sort}, keys : Pairs, id : Rows], cuts : SUBSET Pairs]
               s == walk'.shown
               c == walk'.cursor
               k == walk'.cuts
               o == walk'.over
    <3>1. walk' = [walk EXCEPT !.shown = s, !.over = o, !.cursor = c, !.cuts = k]
      <4> HIDE DEF more, page, keys, last
      <4> QED
          BY <1>1, <1>2, <1>4 DEF Reading, page, keys, last
    <3>2. walk \in P
        BY <1>1 DEF Reading
    <3> HIDE DEF s, c, k, o
    <3>3. [walk EXCEPT !.shown = s, !.over = o, !.cursor = c, !.cuts = k] \in P
        BY <2>1, <2>2, <2>3, <2>4, <3>2 DEF s, c, k, o
    <3> QED
        BY <3>1, <3>3
  <2> QED
      BY <1>1, <1>4, <2>5 DEF Reading
<1>9. ASSUME NEW i \in Rows \ touched PROVE RowFits(i)'
  <2>1. RowFits(i) /\ i \in Rows /\ walk.shown \in Seq(Rows)
      BY <1>1 DEF Reading
  <2> DEFINE K == Len(walk.shown)
  <2>2. /\ K \in Nat /\ DOMAIN walk.shown = 1..K /\ DOMAIN (walk.shown \o page) = 1..(K + L)
        /\ \A n \in 1..K : (walk.shown \o page)[n] = walk.shown[n]
        /\ \A n \in 1..L : (walk.shown \o page)[K + n] = RowAt(n)
    <3> HIDE DEF page
    <3> QED
        BY <1>5, <2>1
  <2>3. Shown(i)' <=> Shown(i) \/ \E n \in 1..L : RowAt(n) = i
    <3>1. Shown(i)' <=> \E n \in 1..(K + L) : (walk.shown \o page)[n] = i
      <4> HIDE DEF page, K
      <4> QED
          BY <1>4, <2>2 DEF Shown
    <3>2. \A n \in 1..(K + L) : n \in 1..K \/ (n - K \in 1..L /\ n = K + (n - K))
      <4> HIDE DEF K
      <4> QED
          BY <2>2
    <3>3. \A n \in 1..L : K + n \in 1..(K + L)
      <4> HIDE DEF K
      <4> QED
          BY <2>2
    <3>4. \A n \in 1..K : n \in 1..(K + L)
      <4> HIDE DEF K
      <4> QED
          BY <2>2
    <3> HIDE DEF page, K
    <3> QED
        BY <2>2, <3>1, <3>2, <3>3, <3>4 DEF Shown
  <2>4. \A n \in 1..L : RowAt(n) = i => AfterCursor(i)
      BY <1>3, <1>5 DEF Matching
  <2>5. \A m, n \in 1..L : RowAt(m) = RowAt(n) => m = n
    <3> SUFFICES ASSUME NEW m \in 1..L, NEW n \in 1..L, RowAt(m) = RowAt(n), m < n PROVE FALSE
        OBVIOUS
    <3>1. Before(RowAt(m), RowAt(n)) /\ RowAt(n) \in Rows
        BY <1>3, <1>5 DEF Matching
    <3> QED
        BY <1>1, <3>1, BeforeIsOrder
  <2>6. \A m, n \in DOMAIN walk'.shown : walk'.shown[m] = i /\ walk'.shown[n] = i => m = n
    <3> SUFFICES ASSUME NEW m \in 1..(K + L), NEW n \in 1..(K + L), (walk.shown \o page)[m] = i, (walk.shown \o page)[n] = i
                 PROVE  m = n
      <4> HIDE DEF page, K
      <4> QED
          BY <1>4, <2>2
    <3>1. \A x \in 1..(K + L) : x \in 1..K \/ (x - K \in 1..L /\ x = K + (x - K))
      <4> HIDE DEF K
      <4> QED
          BY <2>2
    <3>2. Shown(i) => ~AfterCursor(i)
        BY <1>4, <2>1 DEF RowFits
    <3>3. CASE m \in 1..K /\ n \in 1..K
      <4> HIDE DEF page, K
      <4> QED
          BY <2>1, <2>2, <3>3 DEF RowFits
    <3>4. CASE m \in 1..K /\ n \notin 1..K
      <4>1. Shown(i) /\ RowAt(n - K) = i /\ n - K \in 1..L
        <5> HIDE DEF page, K
        <5> QED
            BY <2>2, <3>1, <3>4 DEF Shown
      <4> QED
          BY <2>4, <3>2, <4>1
    <3>5. CASE m \notin 1..K /\ n \in 1..K
      <4>1. Shown(i) /\ RowAt(m - K) = i /\ m - K \in 1..L
        <5> HIDE DEF page, K
        <5> QED
            BY <2>2, <3>1, <3>5 DEF Shown
      <4> QED
          BY <2>4, <3>2, <4>1
    <3>6. CASE m \notin 1..K /\ n \notin 1..K
      <4>1. RowAt(m - K) = i /\ RowAt(n - K) = i /\ m - K \in 1..L /\ n - K \in 1..L /\ m = K + (m - K) /\ n = K + (n - K)
        <5> HIDE DEF page, K
        <5> QED
            BY <2>2, <3>1, <3>6
      <4>2. m - K = n - K
          BY <2>5, <4>1
      <4> HIDE DEF K
      <4> QED
          BY <4>1, <4>2
    <3> QED
        BY <3>3, <3>4, <3>5, <3>6
  <2>7. InList(i)' = InList(i) /\ (InCutMillisecond(i) => InCutMillisecond(i)')
    <3> HIDE DEF keys, more
    <3> QED
        BY <1>4 DEF InList, InCutMillisecond
  <2>8. more => (AfterCursor(i)' <=> Precedes(by, keys, last, Place(i), i))
    <3> SUFFICES ASSUME more PROVE AfterCursor(i)' <=> Precedes(by, keys, last, Place(i), i)
        OBVIOUS
    <3>1. walk'.cursor = [sort |-> walk.sort, keys |-> keys, id |-> last] /\ walk.sort # "none"
      <4> HIDE DEF keys, last, more
      <4> QED
          BY <1>1, <1>4 DEF Reading
    <3> HIDE DEF keys, last
    <3>2. walk'.cursor # NoCursor /\ walk'.cursor.keys = keys /\ walk'.cursor.id = last
        BY <3>1 DEF NoCursor
    <3> QED
        BY <1>4, <3>2 DEF AfterCursor, Place
  <2>9. ASSUME ~walk'.over, Shown(i)', AfterCursor(i)' PROVE FALSE
    <3>1. more /\ last \in Rows /\ Before(last, i)
      <4>1. more
          BY <1>4, <2>9
      <4> QED
          BY <1>1, <1>6, <2>1, <2>8, <2>9, <4>1, CursorFits
    <3>2. CASE Shown(i)
      <4>1. AfterCursor(last)
          BY <1>6, <3>1 DEF Matching
      <4>2. AfterCursor(i)
          BY <1>1, <2>1, <3>1, <4>1, CursorMoves
      <4> QED
          BY <1>4, <2>1, <3>2, <4>2 DEF RowFits
    <3>3. ASSUME NEW n \in 1..L, RowAt(n) = i PROVE FALSE
      <4>1. n = L \/ Before(i, last)
          BY <1>3, <1>5, <3>1, <3>3
      <4>2. ~Before(i, i)
          BY <1>1, <2>1, BeforeIsOrder
      <4>3. Before(i, last) => Before(i, i)
          BY <1>1, <2>1, <3>1, BeforeIsOrder
      <4> QED
          BY <3>1, <3>3, <4>1, <4>2, <4>3
    <3> QED
        BY <2>3, <2>9, <3>2, <3>3
  <2>10. ASSUME InList(i)', ~InCutMillisecond(i)', ~Shown(i)' PROVE ~walk'.over /\ AfterCursor(i)'
    <3>1. InList(i) /\ ~InCutMillisecond(i) /\ ~Shown(i) /\ ~\E n \in 1..L : RowAt(n) = i
        BY <2>3, <2>7, <2>10
    <3>2. AfterCursor(i) /\ i \in Matching
        BY <2>1, <3>1 DEF RowFits, Matching
    <3>3. PICK n \in 1..N : i = RowAt(n)
        BY <1>3, <3>2
    <3>4. n \notin 1..L /\ n > L
        BY <1>5, <3>1, <3>3
    <3>5. more
        BY <1>3, <1>5, <3>4
    <3>6. Before(last, i) /\ last \in Rows
        BY <1>3, <1>5, <1>6, <3>3, <3>4, <3>5
    <3>7. \/ Precedes(by, keys, last, Place(i), i)
          \/ by.time /\ walk.sort = "newest" /\ CursorKeys(list, "newest", shelf[i].keys) = keys
        BY <1>1, <2>1, <3>6, CursorFits
    <3>8. ~(by.time /\ walk.sort = "newest" /\ CursorKeys(list, "newest", shelf[i].keys) = keys)
      <4> HIDE DEF keys, more, by
      <4> QED
          BY <1>4, <2>10, <3>5 DEF InCutMillisecond
    <3> QED
        BY <1>4, <2>8, <3>5, <3>7, <3>8
  <2> QED
      BY <2>6, <2>9, <2>10 DEF RowFits
<1> QED
    BY <1>4, <1>7, <1>8, <1>9 DEF DiscoveryInv

-----------------------------------------------------------------------------
(* The other steps *)

LEMMA WalkStarts ==
    ASSUME DiscoveryTypes, NEW sort \in DOMAIN Sorting[list], NEW available \in BOOLEAN, NEW limit \in Nat \ {0},
           walk' = FromStart(sort, available, limit), UNCHANGED <<list, shelf, touched>>
    PROVE  DiscoveryInv'
<1>1. DiscoveryTypes'
    BY DEF DiscoveryTypes, ShelfRows
<1>2. /\ walk'.shown = <<>> /\ walk'.cursor = NoCursor /\ walk'.over = FALSE /\ DOMAIN walk'.shown = {}
      /\ walk'.sort = sort /\ sort # "none"
    BY SortTable DEF FromStart, DiscoveryTypes
<1>3. Reading'
    BY <1>2 DEF Reading, FromStart
<1>4. \A i \in Rows \ touched : RowFits(i)'
    BY <1>2 DEF RowFits, Shown, AfterCursor
<1> QED
    BY <1>1, <1>3, <1>4 DEF DiscoveryInv

LEMMA SortKeeps ==
    ASSUME DiscoveryInv, NEW sort, ChangeSort(sort)
    PROVE  DiscoveryInv'
<1>1. DiscoveryTypes /\ Reading
    BY DEF DiscoveryInv, ChangeSort, NotSearching, FromStart
<1>2. UNCHANGED <<list, shelf, touched>> /\ walk' = IF list = "services" THEN FromStart("newest", FALSE, walk.limit) ELSE NotSearching
    BY DEF ChangeSort
<1>3. CASE list = "services"
  <2>1. "newest" \in DOMAIN Sorting[list] /\ walk.limit \in Nat \ {0}
      BY <1>1, <1>3 DEF Sorting, SearchServices, Reading
  <2> QED
      BY <1>1, <1>2, <1>3, <2>1, WalkStarts
<1>4. CASE list # "services"
    BY <1>1, <1>2, <1>4 DEF DiscoveryInv, DiscoveryTypes, ShelfRows, NotSearching, FromStart
<1> QED
    BY <1>3, <1>4

\* A row that changes is not spoken of any more; the others stand where they stood.
LEMMA TouchKeeps ==
    ASSUME DiscoveryInv, NEW i \in Rows, NEW row \in ShelfRows, Touch(i, row)
    PROVE  DiscoveryInv'
<1>1. DiscoveryTypes /\ Reading /\ \A j \in Rows \ touched : RowFits(j)
    BY DEF DiscoveryInv, Touch
<1>2. UNCHANGED <<list, walk>> /\ touched' = touched \cup {i} /\ shelf' = [shelf EXCEPT ![i] = row]
    BY DEF Touch
<1>3. DiscoveryTypes' /\ \A j \in Rows : j # i => shelf'[j] = shelf[j]
    BY <1>1, <1>2 DEF DiscoveryTypes, ShelfRows
<1>4. Reading'
    BY <1>1, <1>2 DEF Reading
<1>5. ASSUME NEW j \in Rows \ touched' PROVE RowFits(j)'
  <2>1. j \in Rows \ touched /\ shelf'[j] = shelf[j] /\ RowFits(j)
      BY <1>1, <1>2, <1>3
  <2>2. (InList(j)' <=> InList(j)) /\ (AfterCursor(j)' <=> AfterCursor(j)) /\ (InCutMillisecond(j)' <=> InCutMillisecond(j)) /\ (Shown(j)' <=> Shown(j))
      BY <1>2, <2>1 DEF InList, AfterCursor, InCutMillisecond, Shown
  <2> QED
      BY <1>2, <2>1, <2>2 DEF RowFits
<1> QED
    BY <1>2, <1>3, <1>4, <1>5 DEF DiscoveryInv

LEMMA RowFitsOnce ==
    ASSUME DiscoveryInv
    PROVE  EachRowOnce
<1> SUFFICES ASSUME walk # NotSearching, NEW i \in Rows \ touched
             PROVE  Times(i) <= 1 /\ (walk.over /\ InList(i) /\ ~InCutMillisecond(i) => Times(i) = 1)
    BY DEF EachRowOnce
<1>1. RowFits(i)
    BY DEF DiscoveryInv
<1> DEFINE S == {n \in DOMAIN walk.shown : walk.shown[n] = i}
<1>2. CASE S = {}
  <2>1. Times(i) = 0 /\ ~Shown(i)
      BY <1>2, FS_EmptySet DEF Times, Shown
  <2> QED
      BY <1>1, <2>1 DEF RowFits
<1>3. ASSUME NEW n \in S PROVE Times(i) = 1
  <2>1. S = {n}
      BY <1>1, <1>3 DEF RowFits
  <2> QED
      BY <2>1, FS_Singleton DEF Times
<1> QED
    BY <1>2, <1>3

\* A row that stays as it is is shown at most once in a walk and, when the walk is over, exactly once, for any rows, sort
\* keys, page sizes and changes between two pages; rows published in the millisecond in which a page ended apart.
THEOREM ListsShowEachRowOnce == DiscoverySpec => []EachRowOnce
<1>1. DiscoveryInit => DiscoveryInv
  <2> SUFFICES ASSUME DiscoveryInit PROVE DiscoveryTypes /\ walk = NotSearching
      BY DEF DiscoveryInv
  <2> QED
      BY DEF DiscoveryInit, DiscoveryTypes, ShelfRows
<1>2. DiscoveryInv /\ [DiscoveryNext]_discoveryVars => DiscoveryInv'
  <2> SUFFICES ASSUME DiscoveryInv, [DiscoveryNext]_discoveryVars PROVE DiscoveryInv'
      OBVIOUS
  <2>1. CASE UNCHANGED discoveryVars
      BY <2>1 DEF discoveryVars, DiscoveryInv, DiscoveryTypes, ShelfRows, Reading, RowFits, Shown, AfterCursor, InList, InCutMillisecond
  <2>2. ASSUME NEW sort, NEW available \in BOOLEAN, NEW limit \in PageSizes, OpenList(sort, available, limit) PROVE DiscoveryInv'
    <3>1. DiscoveryTypes /\ limit \in Nat \ {0} /\ sort \in DOMAIN Sorting[list]
        BY <2>2, DiscoveryAssumption DEF DiscoveryInv, OpenList, SearchParses
    <3> QED
        BY <2>2, <3>1, WalkStarts DEF OpenList
  <2>3. ASSUME NEW i \in Rows, (\E keys \in KeysOf(list) : Republish(i, keys)) \/ Unlist(i) \/ PauseOrders(i) PROVE DiscoveryInv'
    <3>1. shelf[i] \in ShelfRows
        BY DEF DiscoveryInv, DiscoveryTypes
    <3>2. PICK row \in ShelfRows : Touch(i, row)
      <4>1. \A keys \in KeysOf(list) : [shelf[i] EXCEPT !.keys = keys, !.listed = TRUE] \in ShelfRows
          BY <3>1 DEF ShelfRows
      <4>2. [shelf[i] EXCEPT !.listed = FALSE] \in ShelfRows
          BY <3>1 DEF ShelfRows
      <4>3. [shelf[i] EXCEPT !.accepting = ~@] \in ShelfRows
          BY <3>1 DEF ShelfRows
      <4> QED
          BY <2>3, <4>1, <4>2, <4>3 DEF Republish, Unlist, PauseOrders
    <3> QED
        BY <3>2, TouchKeeps
  <2> QED
      BY <2>1, <2>2, <2>3, PageKeeps, SortKeeps DEF DiscoveryNext
<1> QED
    BY <1>1, <1>2, RowFitsOnce, PTL DEF DiscoverySpec
=============================================================================
