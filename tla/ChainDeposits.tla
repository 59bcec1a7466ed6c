---------------------------- MODULE ChainDeposits ----------------------------
(***************************************************************************)
(* Crypto checkout and the deposit indexer (src/modules/crypto/deposits.ts, *)
(* commands.ts): the buyer's hint and the indexer job verify the same       *)
(* transactions, in steps, while the chain grows and reorganises.  A block  *)
(* is identified by its number and the fork it was made on.                 *)
(***************************************************************************)
EXTENDS Integers, Sequences, FiniteSets, FiniteSetsExt

CONSTANTS
    Deposits,      \* settlement transactions a payer may send
    IntentOf,      \* [Deposits -> Intents]: the reference a deposit carries
    Flaw,          \* [Deposits -> the reason to reject it, or "NONE"]
    OrderIntents,  \* payment intents of one order, in the order they are created
    PoolIntents,   \* funding intents of a pool
    Finality,      \* finality_confirmations
    MaxBlocks,     \* bound on the height of the chain
    MaxReorgs      \* bound on reorganisations; none reaches a block with Finality confirmations

Intents == OrderIntents \cup PoolIntents
Flaws == {"NONE", "UNSUPPORTED_ASSET", "UNKNOWN_REFERENCE", "WRONG_CHAIN", "WRONG_ESCROW", "WRONG_ASSET",
          "UNDERPAID", "OVERPAID", "WRONG_SENDER", "NOT_CENT_EXACT"}
ASSUME DepositsAssumption ==
    IntentOf \in [Deposits -> Intents] /\ Flaw \in [Deposits -> Flaws] /\ Finality \in Nat \ {0}

VARIABLES
    chain,         \* the canonical chain: blocks [fork, txs]
    reorgs,        \* reorganisations so far, the fork new blocks are made on
    buyable,       \* the order: "AWAITING_PAYMENT" with its hold, "FUNDED", "CLOSED"
    intent,        \* crypto_payment_intents and pool_funding_intents: status
    deposit,       \* chain_deposits: status
    pooled,        \* DEPOSIT movements into the pool, by deposit
    checkpoint,    \* chain_checkpoints.last_scanned_block
    check          \* verifications under way: the buyer's and the job's

depositVars == <<chain, reorgs, buyable, intent, deposit, pooled, checkpoint, check>>

Checkers == {"buyer", "job"}
NoCheck == [phase |-> "idle", tx |-> "none", number |-> 0, fork |-> 0, head |-> 0, todo |-> {}, to |-> 0]
Height == Len(chain)
Blocks(t) == {n \in 1..Height : t \in chain[n].txs}
Open == {"AWAITING_DEPOSIT", "PENDING_FINALITY"}
Decided == {"CREDITED", "REJECTED", "REORGED"}

DepositInit ==
    /\ chain = <<>> /\ reorgs = 0 /\ buyable = "AWAITING_PAYMENT" /\ pooled = {} /\ checkpoint = 0
    /\ intent = [i \in Intents |-> IF i \in PoolIntents THEN "AWAITING_DEPOSIT" ELSE "NONE"]
    /\ deposit = [t \in Deposits |-> "NONE"]
    /\ check = [c \in Checkers |-> NoCheck]

-----------------------------------------------------------------------------
(* The chain *)

\* A block, with at most one deposit whose reference was issued; late ones still leave room for finality.
AddBlock(ts) ==
    /\ Height < MaxBlocks /\ Cardinality(ts) <= 1
    /\ \A t \in ts : intent[IntentOf[t]] # "NONE" /\ Blocks(t) = {} /\ Height + Finality <= MaxBlocks
    /\ chain' = Append(chain, [fork |-> reorgs, txs |-> ts])
    /\ UNCHANGED <<reorgs, buyable, intent, deposit, pooled, checkpoint, check>>

\* The latest blocks are replaced; their transactions may be included again later.
Reorg(k) ==
    /\ reorgs < MaxReorgs /\ k < Finality /\ k <= Height
    /\ chain' = [n \in 1..Height |-> IF n > Height - k THEN [fork |-> reorgs + 1, txs |-> {}] ELSE chain[n]]
    /\ reorgs' = reorgs + 1
    /\ UNCHANGED <<buyable, intent, deposit, pooled, checkpoint, check>>

-----------------------------------------------------------------------------
(* The order *)

\* create_crypto_payment: a new choice replaces an intent nobody has paid yet.
CreateCryptoPayment(i) ==
    /\ buyable = "AWAITING_PAYMENT" /\ i \in OrderIntents /\ intent[i] = "NONE"
    /\ \A j \in OrderIntents : intent[j] # "PENDING_FINALITY"
    /\ intent' = [j \in Intents |-> CASE j = i -> "AWAITING_DEPOSIT"
                                      [] j \in OrderIntents /\ intent[j] = "AWAITING_DEPOSIT" -> "CANCELLED"
                                      [] OTHER -> intent[j]]
    /\ UNCHANGED <<chain, reorgs, buyable, deposit, pooled, checkpoint, check>>

\* The order is cancelled, or its hold expires, before the deposit is final.
CloseOrder ==
    /\ buyable = "AWAITING_PAYMENT" /\ buyable' = "CLOSED"
    /\ UNCHANGED <<chain, reorgs, intent, deposit, pooled, checkpoint, check>>

-----------------------------------------------------------------------------
(* verifyChainTransaction, one read at a time *)

Step(c, r) == check' = [check EXCEPT ![c] = r]
Done(c) == Step(c, [NoCheck EXCEPT !.todo = check[c].todo \ {check[c].tx}, !.to = check[c].to,
                                   !.phase = IF c = "buyer" THEN "idle" ELSE IF check[c].to > 0 THEN "range" ELSE "pending"])

\* getTransactionReceipt; nothing is found, and nothing changes, when the transaction is not on the chain.
ReadReceipt(c, t) ==
    /\ IF Blocks(t) = {} THEN check[c].phase = "range" /\ Step(c, [check[c] EXCEPT !.todo = @ \ {t}])
       ELSE \E n \in Blocks(t) : Step(c, [check[c] EXCEPT !.phase = "receipt", !.tx = t, !.number = n, !.fork = chain[n].fork])
    /\ UNCHANGED <<chain, reorgs, buyable, intent, deposit, pooled, checkpoint>>

\* verifyDepositForBuyer.
BuyerCheck(t) == check["buyer"].phase = "idle" /\ deposit[t] \notin Decided /\ ReadReceipt("buyer", t)

ReadHead(c) ==
    /\ check[c].phase = "receipt"
    /\ Step(c, [check[c] EXCEPT !.phase = "head", !.head = Height])
    /\ UNCHANGED <<chain, reorgs, buyable, intent, deposit, pooled, checkpoint>>

\* The intent a rejection is charged to: none for an unknown reference, and a pool's is looked up only once the asset is
\* known to be supported.
Matched(t, i) == Flaw[t] # "UNKNOWN_REFERENCE" /\ (i \in PoolIntents => Flaw[t] # "UNSUPPORTED_ASSET")

\* recordRejection and reject: a row that exists stays as it is, an open intent becomes an exception.
Reject(t, i) ==
    /\ deposit' = IF deposit[t] = "NONE" THEN [deposit EXCEPT ![t] = "REJECTED"] ELSE deposit
    /\ intent' = IF Matched(t, i) /\ intent[i] \in Open THEN [intent EXCEPT ![i] = "EXCEPTION"] ELSE intent
    /\ UNCHANGED <<buyable, pooled>>

Credited(i) == \E u \in Deposits : IntentOf[u] = i /\ deposit[u] = "CREDITED" /\ Flaw[u] # "UNKNOWN_REFERENCE"

\* The block the receipt named is canonical now and has enough confirmations below the head that was read.
IsFinalByCount(c) == check[c].head - check[c].number + 1 >= Finality

IsFinal(c) ==
    /\ check[c].number <= Height /\ chain[check[c].number].fork = check[c].fork
    /\ check[c].head - check[c].number + 1 >= Finality

PendingFinality(t, i) ==
    /\ deposit' = [deposit EXCEPT ![t] = "PENDING_FINALITY"]
    /\ intent' = IF intent[i] = "AWAITING_DEPOSIT" THEN [intent EXCEPT ![i] = "PENDING_FINALITY"] ELSE intent
    /\ UNCHANGED <<buyable, pooled>>

\* applyChainFunding on the order, or one DEPOSIT movement into the pool.
Credit(t, i) ==
    /\ deposit' = [deposit EXCEPT ![t] = "CREDITED"]
    /\ IF i \in PoolIntents
       THEN pooled' = pooled \cup {t} /\ intent' = [intent EXCEPT ![i] = "CONFIRMED"] /\ UNCHANGED buyable
       ELSE IF buyable = "AWAITING_PAYMENT"
       THEN buyable' = "FUNDED" /\ intent' = [intent EXCEPT ![i] = "CONFIRMED"] /\ UNCHANGED pooled
       ELSE intent' = [intent EXCEPT ![i] = "EXCEPTION"] /\ UNCHANGED <<buyable, pooled>>

\* processEvent and processPoolDeposit, one transaction.
ProcessEvent(c) ==
    LET t == check[c].tx
        i == IntentOf[t]
    IN  /\ check[c].phase = "head"
        /\ CASE deposit[t] \in Decided -> UNCHANGED <<deposit, intent, buyable, pooled>>
             [] deposit[t] \notin Decided /\ (Flaw[t] \notin {"NONE", "NOT_CENT_EXACT"} \/ Credited(i)) -> Reject(t, i)
             [] OTHER -> IF ~IsFinal(c) THEN PendingFinality(t, i)
                         ELSE IF Flaw[t] = "NOT_CENT_EXACT" THEN Reject(t, i) ELSE Credit(t, i)
        /\ Done(c)
        /\ UNCHANGED <<chain, reorgs, checkpoint>>

-----------------------------------------------------------------------------
(* The indexer job: pending deposits first, then new blocks (indexChainDeposits) *)

StartJob ==
    /\ check["job"].phase = "idle"
    /\ Step("job", [NoCheck EXCEPT !.phase = "pending", !.todo = {t \in Deposits : deposit[t] = "PENDING_FINALITY"}])
    /\ UNCHANGED <<chain, reorgs, buyable, intent, deposit, pooled, checkpoint>>

\* recheckPendingDeposits: each pending deposit is verified again.  An outage only delays it.
RecheckPending(t) ==
    /\ check["job"].phase = "pending" /\ t \in check["job"].todo
    /\ IF Blocks(t) # {} THEN ReadReceipt("job", t)
       ELSE /\ Step("job", [check["job"] EXCEPT !.phase = "gone", !.tx = t])
            /\ UNCHANGED <<chain, reorgs, buyable, intent, deposit, pooled, checkpoint>>

\* A missing receipt is taken for one that is not there yet.
MarkReorgedLater ==
    /\ check["job"].phase = "gone" /\ Done("job")
    /\ UNCHANGED <<chain, reorgs, buyable, intent, deposit, pooled, checkpoint>>

\* Its transaction had no receipt: the deposit is reorganised away and its intent waits again.
MarkReorged ==
    LET t == check["job"].tx
        i == IntentOf[t]
    IN  /\ check["job"].phase = "gone"
        /\ IF deposit[t] # "PENDING_FINALITY" THEN UNCHANGED <<deposit, intent>>
           ELSE /\ deposit' = [deposit EXCEPT ![t] = "REORGED"]
                /\ intent' = IF intent[i] = "PENDING_FINALITY" THEN [intent EXCEPT ![i] = "AWAITING_DEPOSIT"] ELSE intent
        /\ Done("job")
        /\ UNCHANGED <<chain, reorgs, buyable, pooled, checkpoint>>

\* scanChainDeposits: the logs after the checkpoint up to the head.
ScanRange ==
    /\ check["job"].phase = "pending" /\ check["job"].todo = {}
    /\ Step("job", IF checkpoint >= Height THEN NoCheck
                   ELSE [NoCheck EXCEPT !.phase = "range", !.to = Height,
                                        !.todo = UNION {chain[n].txs : n \in (checkpoint + 1)..Height}])
    /\ UNCHANGED <<chain, reorgs, buyable, intent, deposit, pooled, checkpoint>>

ScanNext == \E t \in check["job"].todo : check["job"].phase = "range" /\ ReadReceipt("job", t)

\* The checkpoint advances only once the whole range was processed.
ScanDone ==
    /\ check["job"].phase = "range" /\ check["job"].todo = {}
    /\ checkpoint' = Max({checkpoint, check["job"].to}) /\ Step("job", NoCheck)
    /\ UNCHANGED <<chain, reorgs, buyable, intent, deposit, pooled>>

\* The node is unavailable to the buyer's check or the scan: nothing was done, the range is scanned again.
Unavailable(c) ==
    /\ c = "job" => check[c].to > 0
    /\ check[c].phase \in {"receipt", "range"} /\ Step(c, NoCheck)
    /\ UNCHANGED <<chain, reorgs, buyable, intent, deposit, pooled, checkpoint>>

JobStep ==
    \/ StartJob \/ MarkReorged \/ ScanRange \/ ScanNext \/ ScanDone
    \/ \E t \in Deposits : RecheckPending(t)
    \/ ReadHead("job") \/ ProcessEvent("job")

DepositNext ==
    \/ \E ts \in SUBSET Deposits : AddBlock(ts)
    \/ \E k \in 1..MaxBlocks : Reorg(k)
    \/ \E i \in OrderIntents : CreateCryptoPayment(i)
    \/ CloseOrder
    \/ \E t \in Deposits : BuyerCheck(t)
    \/ ReadHead("buyer") \/ ProcessEvent("buyer")
    \/ JobStep
    \/ \E c \in Checkers : Unavailable(c)

\* Blocks keep coming and the job keeps running.
DepositFairness == WF_depositVars(AddBlock({})) /\ WF_depositVars(JobStep)

-----------------------------------------------------------------------------
(* Properties *)

\* Whatever is verified twice, or while the chain reorganises: a credited deposit is on the canonical chain, each intent is
\* credited once, and the order is funded, or the pool's balance raised, by exactly such deposits
\* (processEvent: canonical, finality and one credit per intent).
CreditedIsFinal ==
    LET credited(i) == {t \in Deposits : deposit[t] = "CREDITED" /\ IntentOf[t] = i}
    IN  /\ \A i \in Intents : Cardinality(credited(i)) <= 1 /\ \A t \in credited(i) : Blocks(t) # {}
        /\ buyable = "FUNDED" => \E i \in OrderIntents : credited(i) # {} /\ intent[i] = "CONFIRMED"
        /\ pooled = UNION {credited(i) : i \in PoolIntents}

\* In the end recheckPendingDeposits has decided every pending deposit: credited, or reorganised away.  Only one whose
\* intent another deposit has paid is left pending.
PendingDecided ==
    <>[](\A t \in Deposits : deposit[t] = "PENDING_FINALITY" => Credited(IntentOf[t]))

=============================================================================
