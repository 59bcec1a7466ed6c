------------------------------ MODULE MCMarket ------------------------------
(***************************************************************************)
(* TLC instances of the market around an order: requests and hire offers,  *)
(* campaign pools, item auctions, performance bonuses, refunds after       *)
(* release, digital products, listings, the lists they are found in and    *)
(* provider costs that change late.                                        *)
(* They share no variable; a behaviour follows one of them and the others  *)
(* stay as they were.  MCServices runs them beside those of the platform.  *)
(***************************************************************************)
EXTENDS HireRequests, Pools, ItemAuctions, Performance, AfterRelease, Digital, Listings, Discovery, LateCosts

MCBudgets == {[budget |-> 3, cap |-> NoCap, target |-> 2], [budget |-> 2, cap |-> 2, target |-> 1]}
MCMaxAppVersion == [c \in Applicants |-> IF c = "a" THEN 2 ELSE 1]
MCTemplates == <<[cash |-> 1, token |-> 1, required |-> {"cash", "token"}, perk |-> TRUE],
                 [cash |-> 1, token |-> 1, required |-> {"cash"}, perk |-> FALSE],
                 [cash |-> 2, token |-> 0, required |-> {"cash"}, perk |-> FALSE]>>
MCPoolDeposits == [cash |-> 2, token |-> 1]
MCProducts == {[license |-> "EXCLUSIVE", stock |-> 1, updates |-> "LATEST", limit |-> 1],
               [license |-> "NON_EXCLUSIVE", stock |-> NoStock, updates |-> "PURCHASED_VERSION", limit |-> 2]}
MCCostFacts == [e1 |-> 16, e2 |-> 18, e3 |-> 19, e4 |-> 20]
MCSortKeys == {<<0, 0>>, <<1, 0>>, <<2, 0>>, <<2, 1>>}

VARIABLE focus   \* the scenario a behaviour follows

MarketScenarios == {"requests", "pools", "items", "performance", "after_release", "digital", "listings", "discovery", "late_cost"}

MarketInit ==
        /\ HireInit /\ request.target = 2
        /\ PoolInit /\ ItemInit /\ PerfInit /\ AfterInit /\ DigitalInit /\ ListingInit /\ DiscoveryInit /\ LateCostInit
        /\ focus # "requests" => request.model = "FIXED"
        /\ focus # "items" => itemClock = {}
        /\ focus # "digital" => product.license = "EXCLUSIVE"
        /\ service.terms = "t1" /\ (focus # "listings" => service.channel /\ sample = "NONE")
        /\ focus # "discovery" => list = "services" /\ \A i, j \in Rows : shelf[i] = shelf[j] /\ shelf[i].keys = <<0, 0>>
        /\ list # "creators" => \A i \in Rows : shelf[i].keys[2] = 0
        /\ focus # "late_cost" => feePayer = "CREATOR_AT_COST"

\* For a fixed fee one creator edits its application and the buyer the request; the other creator asks for little, stays
\* and answers in time.
Hiring == /\ HireNext /\ application'["b"].quote \in {0, 1} /\ application'["b"].status # "WITHDRAWN" /\ ~offer'["b"].due
          /\ request'.model = "PERFORMANCE" => application'["a"].version <= 1 /\ request'.edits = 0

\* The first hire is h1 (hires are alike); only its perk is followed to its end, only its payouts fail, and only it is
\* cancelled with its rewards.  A refund of token is paid.
Pooling == /\ PoolNext
           /\ pooled'["h2"].status # "NONE" => pooled'["h1"].status # "NONE"
           /\ pooled'["h2"].status # "CANCELLED" /\ entitlement'["h2"] \in {"NONE", "PENDING", "CANCELLED"}
           /\ \A k \in DOMAIN refund'["token"] : refund'["token"][k].state # "FAILED"
           /\ \A a \in Assets : allocation'["h2"][a].attempts > 0 => allocation'["h2"][a].state # "ACTIVE"

\* The first buyer is b1 (buyers are alike).
Selling == DigitalNext /\ (order'["b2"] # "NONE" => order'["b1"] # "NONE")

\* The walks to follow: creators by reputation, the other sorts in the other lists, where turnaround orders rows as
\* price_asc does.  Pages of two in walks over all rows; a creator pauses only where the walk asks who accepts orders, as
\* no other walk reads it; only reputation reads a second key.  Row 3 stays as it is.
Walked == {"none"} \union (IF list = "creators" THEN {"reputation"} ELSE DOMAIN Sorting[list] \ {"turnaround"})
Walking == /\ DiscoveryNext
           /\ walk'.sort \in Walked /\ (walk'.limit = 2 => ~walk'.available) /\ 3 \notin touched'
           /\ \A i \in Rows : /\ shelf'[i].accepting # shelf[i].accepting => walk.available
                              /\ shelf'[i].keys[2] # 0 => list = "creators"

MarketNext ==
        \/ focus = "requests" /\ Hiring
           /\ UNCHANGED <<poolVars, itemVars, perfVars, afterVars, digitalVars, listingVars, discoveryVars, lateCostVars>>
        \/ focus = "pools" /\ Pooling
           /\ UNCHANGED <<hireVars, itemVars, perfVars, afterVars, digitalVars, listingVars, discoveryVars, lateCostVars>>
        \/ focus = "items" /\ ItemNext
           /\ UNCHANGED <<hireVars, poolVars, perfVars, afterVars, digitalVars, listingVars, discoveryVars, lateCostVars>>
        \/ focus = "performance" /\ PerfNext
           /\ UNCHANGED <<hireVars, poolVars, itemVars, afterVars, digitalVars, listingVars, discoveryVars, lateCostVars>>
        \/ focus = "after_release" /\ AfterNext
           /\ UNCHANGED <<hireVars, poolVars, itemVars, perfVars, digitalVars, listingVars, discoveryVars, lateCostVars>>
        \/ focus = "digital" /\ Selling
           /\ UNCHANGED <<hireVars, poolVars, itemVars, perfVars, afterVars, listingVars, discoveryVars, lateCostVars>>
        \/ focus = "listings" /\ ListingNext
           /\ UNCHANGED <<hireVars, poolVars, itemVars, perfVars, afterVars, digitalVars, discoveryVars, lateCostVars>>
        \/ focus = "discovery" /\ Walking
           /\ UNCHANGED <<hireVars, poolVars, itemVars, perfVars, afterVars, digitalVars, listingVars, lateCostVars>>
        \/ focus = "late_cost" /\ LateCostNext
           /\ UNCHANGED <<hireVars, poolVars, itemVars, perfVars, afterVars, digitalVars, listingVars, discoveryVars>>

marketVars == <<hireVars, poolVars, itemVars, perfVars, afterVars, digitalVars, listingVars, discoveryVars, lateCostVars>>
=============================================================================
