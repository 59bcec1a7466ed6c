------------------------------ MODULE MCChain ------------------------------
(***************************************************************************)
(* TLC instances of what must come to an end: the crypto rail and the       *)
(* creator's auction.  A behaviour follows one scenario: payouts around a   *)
(* dispute, two workers and a batch, payouts during an incident, deposits   *)
(* (two for one intent, one for each of two intents, or for a pool), or an  *)
(* auction with two bidders beside one directly booked order.  What a       *)
(* scenario leaves out stays as it was.                                     *)
(***************************************************************************)
EXTENDS ChainPayouts, ChainDeposits, Auctions

CONSTANT Focus   \* the scenarios of a run

MCKind == [freeze |-> "FREEZE", unfreeze |-> "UNFREEZE", release |-> "ORDER_RELEASE", rest |-> "ORDER_RELEASE",
           refund |-> "ORDER_REFUND", part |-> "ORDER_REFUND", allocation |-> "ALLOCATION"]
MCPayouts == DOMAIN MCKind
MCBucketOf == [p \in MCPayouts |-> IF p = "allocation" THEN "pool" ELSE "order"]
MCAmountOf == [p \in MCPayouts |-> CASE p \in {"freeze", "unfreeze"} -> 0 [] p \in {"rest", "part"} -> 1 [] OTHER -> 2]

MCIntentOf == [t1 |-> "i1", t2 |-> "i1", t3 |-> "i2", p1 |-> "pool", p2 |-> "pool"]
MCDeposits == DOMAIN MCIntentOf
MCFlaw == [t \in MCDeposits |-> IF t = "p2" THEN "UNDERPAID" ELSE "NONE"]
Sent == [same_intent |-> {"t1", "t2"}, two_intents |-> {"t1", "t3"}, pool |-> {"p1"}, flawed |-> {"p2"}]

MCUnits == [o \in {"booked", "sale"} |-> IF o = "sale" THEN 2 ELSE 1]

VARIABLE focus

Init == focus \in Focus /\ PayoutInit /\ DepositInit /\ AuctionInit

PayoutScenario ==
    /\ \/ OrderNext \/ Mined \/ Dropped \/ WorkerNext("w1")
       \/ focus = "batch" /\ WorkerNext("w2")
       \/ focus = "incident" /\ IncidentNext
    /\ focus # "batch" => payoutRow'["allocation"].state = "NONE"
    /\ focus # "dispute" => dispute' = "NONE"
    /\ focus = "batch" => stage' # "CANCELLED"

DepositScenario ==
    /\ DepositNext
    /\ \A n \in 1..Len(chain') : chain'[n].txs \subseteq Sent[focus]
    /\ \A i \in OrderIntents : intent'[i] # "NONE" => \E t \in Sent[focus] : IntentOf[t] = i

Next == \/ focus \notin DOMAIN Sent \union {"auction"} /\ PayoutScenario /\ UNCHANGED <<focus, depositVars, auctionVars>>
        \/ focus \in DOMAIN Sent /\ DepositScenario /\ UNCHANGED <<focus, payoutVars, auctionVars>>
        \/ focus = "auction" /\ AuctionNext /\ UNCHANGED <<focus, payoutVars, depositVars>>

chainVars == <<focus, payoutVars, depositVars, auctionVars>>
\* Blocks keep coming, time passes, and cron keeps running the workers and the jobs of the scenario.
Spec == /\ Init /\ [][Next]_chainVars /\ PayoutFairness
        /\ WF_depositVars(focus \in DOMAIN Sent /\ AddBlock({})) /\ WF_depositVars(focus \in DOMAIN Sent /\ JobStep)
        /\ WF_auctionVars(focus = "auction" /\ Tick) /\ WF_auctionVars(focus = "auction" /\ CloseAuction)
=============================================================================
